---- MODULE Spec2Model ----
(***************************************************************************)
(* Prompt-processing pipeline of the ChatGPT prompt keyword analyzer:      *)
(* the manual scheduler of App (startAnalysis / processPrompt /            *)
(* resetAnalysis), the batch scheduler of BatchAnalysis (processBatch) and *)
(* the hand-over of batch results to App (handleBatchComplete).            *)
(*                                                                         *)
(* Conventions.  An optional value (T | null | undefined) is a sequence of *)
(* length 0 or 1.  A text is a sequence of one-character strings.  An id   *)
(* built from a template string `kind-${Date.now()}-${index}` is the       *)
(* record [kind, t, index].  One action is one synchronous continuation of *)
(* an async handler: from the event or resumption to the next await.       *)
(***************************************************************************)
EXTENDS Naturals, Integers, Sequences, FiniteSets, TLC

\* ---------------------------------------------------------------- bounds
MaxEvents == 5
MaxSlots == MaxEvents - 2
MaxLen == 3
MaxItems == 2
MaxRenders == 2
MaxLine == 4

\* ------------------------------------------------------ program constants
PromptLimit == 10
BatchRowLimit == 50

\* ------------------------------------------------------------ input sets
\* what the user types into the prompt box: the second text is trimmed on entry
PromptSet == {<<"p">>, <<"q", " ">>}
KeywordSet == {<<"a", "i">>, <<"c">>}
T1 == <<"A", "i", "c">>
Texts == {<< >>, T1}
Row1 == [prompt |-> <<"x">>, keywords |-> << <<"c">> >>]
Row2 == [prompt |-> <<"y">>, keywords |-> << <<"a", "i">>, <<"c">> >>]

\* the arguments findKeywordMatches is applied to on its own
SeqsUpTo(S, n) == UNION {[1..k -> S] : k \in 0..n}
CatText == <<"c", "a", "t", " ", "C", "A", "T", " ", "c", "A", "t">>
Cat == <<"C", "a", "t">>
MatcherTexts ==
    SeqsUpTo({"a", "A", "b"}, MaxLen) \cup {CatText, <<"a", "a", "a", "a">>}
MatcherKeywords == (SeqsUpTo({"a", "B", "."}, 2) \ {<< >>}) \cup {Cat}
MatcherKeywordLists == SeqsUpTo(MatcherKeywords, 2)

\* generateText either resolves with a text or rejects with a thrown value
ProviderOutcomes ==
    {[ok |-> TRUE, text |-> t, isError |-> FALSE, message |-> ""] : t \in Texts}
    \cup {[ok |-> FALSE, text |-> << >>, isError |-> TRUE, message |-> "quota"]}

\* ------------------------------------------------------------- utilities
Null == << >>
Some(x) == <<x>>

\* String.prototype.trim: white space is stripped from both ends
WhiteSpace == {" ", "\t", "\n", "\r"}

RECURSIVE TrimStart(_)
TrimStart(s) ==
    IF s # << >> /\ Head(s) \in WhiteSpace THEN TrimStart(Tail(s)) ELSE s

RECURSIVE TrimEnd(_)
TrimEnd(s) ==
    IF s # << >> /\ s[Len(s)] \in WhiteSpace
    THEN TrimEnd(SubSeq(s, 1, Len(s) - 1))
    ELSE s

Trim(s) == TrimEnd(TrimStart(s))

SetMin(S) == CHOOSE x \in S : \A y \in S : x <= y
SetMax(S) == CHOOSE x \in S : \A y \in S : x >= y

\* ------------------------------------------------------- KeywordMatcher
\* A keyword is handed to new RegExp unescaped.  Of the pattern syntax the model
\* covers literal characters and the wildcard "."; every pattern of the model
\* matches exactly Len(keyword) characters.
Lower(c) ==
    CASE c = "A" -> "a"
      [] c = "B" -> "b"
      [] c = "C" -> "c"
      [] c = "I" -> "i"
      [] c = "T" -> "t"
      [] OTHER -> c

\* a pattern compiled without the 'i' flag
PatternCharMatches_CaseSensitive(p, c) == p = "." \/ p = c

\* one pattern character against one text character under the 'i' flag
PatternCharMatches(p, c) == p = "." \/ Lower(p) = Lower(c)

\* the pattern matches the text at zero-based offset pos
MatchesAt(text, keyword, pos) ==
    /\ pos + Len(keyword) <= Len(text)
    /\ \A j \in 1..Len(keyword) : PatternCharMatches(keyword[j], text[pos + j])

\* an exec loop that resumes one character after the start of a match
RECURSIVE ExecPositions_Overlapping(_, _, _)
ExecPositions_Overlapping(text, keyword, lastIndex) ==
    IF lastIndex + Len(keyword) > Len(text) THEN << >>
    ELSE IF MatchesAt(text, keyword, lastIndex)
         THEN <<lastIndex>> \o ExecPositions_Overlapping(text, keyword, lastIndex + 1)
         ELSE ExecPositions_Overlapping(text, keyword, lastIndex + 1)

\* the exec loop: offsets of the matches found left to right from lastIndex,
\* each search resuming at the end of the previous match
RECURSIVE ExecPositions(_, _, _)
ExecPositions(text, keyword, lastIndex) ==
    IF lastIndex + Len(keyword) > Len(text) THEN << >>
    ELSE IF MatchesAt(text, keyword, lastIndex)
         THEN <<lastIndex>> \o ExecPositions(text, keyword, lastIndex + Len(keyword))
         ELSE ExecPositions(text, keyword, lastIndex + 1)

\* text.match(regex) with the g flag: the matched substrings, left to right,
\* each search resuming at the end of the previous match
RECURSIVE MatchAll(_, _, _)
MatchAll(text, keyword, lastIndex) ==
    IF lastIndex + Len(keyword) > Len(text) THEN << >>
    ELSE IF MatchesAt(text, keyword, lastIndex)
         THEN <<SubSeq(text, lastIndex + 1, lastIndex + Len(keyword))>>
                  \o MatchAll(text, keyword, lastIndex + Len(keyword))
         ELSE MatchAll(text, keyword, lastIndex + 1)

\* the callback of keywords.map: count from text.match, positions from exec
KeywordMatchOf(text, keyword) ==
    [keyword |-> keyword,
     count |-> Len(MatchAll(text, keyword, 0)),
     positions |-> ExecPositions(text, keyword, 0)]

\* a filter that keeps every record
HasCount_Any(m) == TRUE

\* filter(match => match.count > 0)
HasCount(m) == m.count > 0

\* a matcher that orders its records by descending count
findKeywordMatches_ByCount(text, kws) ==
    SortSeq(SelectSeq([k \in 1..Len(kws) |-> KeywordMatchOf(text, kws[k])], HasCount),
            LAMBDA x, y : x.count > y.count)

findKeywordMatches(text, kws) ==
    SelectSeq([k \in 1..Len(kws) |-> KeywordMatchOf(text, kws[k])], HasCount)

\* new RegExp(keyword, 'gi') throws a SyntaxError.  Of the invalid patterns the
\* model covers the group that is opened and never closed.
RegExpThrows(keyword) ==
    /\ \E j \in 1..Len(keyword) : keyword[j] = "("
    /\ \A j \in 1..Len(keyword) : keyword[j] # ")"

\* findKeywordMatches throws: keywords.map reaches an invalid pattern
findKeywordMatchesThrows(kws) == \E k \in 1..Len(kws) : RegExpThrows(kws[k])

\* the SyntaxError as a value caught by a catch block
SyntaxErrorThrown ==
    [ok |-> FALSE, text |-> << >>, isError |-> TRUE,
     message |-> "Invalid regular expression: Unterminated group"]

\* ---------------------------------------------------------------- frames
\* a slot holding no startAnalysis call
FreeFrame ==
    [prompts |-> << >>, keywords |-> << >>, ids |-> << >>, i |-> 0,
     results |-> << >>, outcomes |-> << >>, pc |-> "free", abandoned |-> FALSE,
     calls |-> << >>, delays |-> 0]

\* no processBatch call is in progress
IdleBatch ==
    [rows |-> << >>, i |-> 0, results |-> << >>, pc |-> "idle",
     calls |-> << >>, delays |-> 0]

\* ---------------------------------------- findKeywordMatches, step by step
\* Of the patterns that can match the empty string the model covers one
\* character followed by the quantifier "*".
MatchesEmptyString(keyword) == Len(keyword) = 2 /\ keyword[2] = "*"

\* the number of consecutive characters from offset pos that match p
RECURSIVE RunLength(_, _, _)
RunLength(text, p, pos) ==
    IF pos < Len(text) /\ PatternCharMatches(p, text[pos + 1])
    THEN 1 + RunLength(text, p, pos + 1)
    ELSE 0

\* the length of the match of the pattern at offset pos, -1 if there is none
MatchLengthAt(text, keyword, pos) ==
    IF MatchesEmptyString(keyword) THEN RunLength(text, keyword[1], pos)
    ELSE IF MatchesAt(text, keyword, pos) THEN Len(keyword)
    ELSE -1

\* regex.exec with the g flag leaves lastIndex at the end of the match
LastIndexAfter(index, length) == index + length

\* searchRegex.exec(text): the offset of the first match at or after lastIndex,
\* -1 for null
ExecIndex(text, keyword, lastIndex) ==
    LET found == {p \in lastIndex..Len(text) : MatchLengthAt(text, keyword, p) >= 0}
    IN IF found = {} THEN -1 ELSE SetMin(found)

\* the positions array grows with every match; the model records it up to the
\* length no terminating loop exceeds and lets it saturate there
MaxPositions == MaxLen + 1

Push(positions, index) ==
    IF Len(positions) < MaxPositions THEN Append(positions, index) ELSE positions

IdleExec ==
    [pc |-> "idle", k |-> 0, lastIndex |-> 0, match |-> -1, positions |-> << >>,
     records |-> << >>]

\* ----------------------------------------------------------------- state
VARIABLES
    clock,           \* Date.now()
    prompts,         \* App state: configured prompts
    keywords,        \* App state: configured keywords
    analyses,        \* App state: the item list
    isRunning,       \* App state
    currentSession,  \* App state: optional AnalysisSession
    runs,            \* the frames of the startAnalysis calls, one per slot
    batchData,       \* BatchAnalysis state: parsed rows
    batchSession,    \* BatchAnalysis state: optional BatchAnalysisSession
    isProcessing,    \* BatchAnalysis state
    error,           \* BatchAnalysis state: optional message
    batch,           \* the frame of the processBatch call
    inflight,        \* provider calls issued and not yet settled
    events,          \* history: number of user intents and clock ticks so far
    issued,          \* history: the ids of the sessions installed so far
    starts,          \* history: number of startAnalysis calls so far
    mText,           \* findKeywordMatches applied on its own: argument text
    mKeywords,       \* findKeywordMatches applied on its own: argument keywords
    mMatches,        \* findKeywordMatches applied on its own: optional result
    summary,         \* the AnalyticsData of the last render, if any, and the render count
    csvFile,         \* parseCSV applied on its own: argument csvText
    csvResult,       \* parseCSV applied on its own: optional result
    exec             \* findKeywordMatches run step by step: its frame

vars == <<clock, prompts, keywords, analyses, isRunning, currentSession, runs,
          batchData, batchSession, isProcessing, error, batch, inflight, events,
          issued, starts, mText, mKeywords, mMatches, summary, csvFile,
          csvResult, exec>>

\* the variables of the pure functions applied on their own
pureVars == <<mText, mKeywords, mMatches, summary, csvFile, csvResult, exec>>

Init ==
    /\ clock = 0
    /\ prompts = << >>
    /\ keywords = << >>
    /\ analyses = << >>
    /\ isRunning = FALSE
    /\ currentSession = Null
    /\ runs = [r \in 1..MaxSlots |-> FreeFrame]
    /\ batchData = << >>
    /\ batchSession = Null
    /\ isProcessing = FALSE
    /\ error = Null
    /\ batch = IdleBatch
    /\ inflight = {}
    /\ events = 0
    /\ issued = {}
    /\ starts = 0
    /\ mText = << >>
    /\ mKeywords = << >>
    /\ mMatches = Null
    /\ summary = Null
    /\ csvFile = << >>
    /\ csvResult = Null
    /\ exec = IdleExec

\* Date.now() advances
Tick ==
    /\ events < MaxEvents
    /\ events' = events + 1
    /\ clock' = clock + 1
    /\ UNCHANGED <<prompts, keywords, analyses, isRunning, currentSession, runs,
                   batchData, batchSession, isProcessing, error, batch, inflight,
                   issued, starts>>
    /\ UNCHANGED pureVars


\* ------------------------------------------------- input collaborators
\* an addPrompt that appends whatever the length of the list
addPrompt_NoLimit(currentPrompt) ==
    /\ events < MaxEvents
    /\ events' = events + 1
    /\ prompts' = IF Trim(currentPrompt) # << >>
                  THEN Append(prompts, Trim(currentPrompt))
                  ELSE prompts
    /\ UNCHANGED <<clock, keywords, analyses, isRunning, currentSession, runs,
                   batchData, batchSession, isProcessing, error, batch, inflight,
                   issued, starts>>
    /\ UNCHANGED pureVars

\* PromptInput.addPrompt (button or Ctrl+Enter): the trimmed text is appended
\* when it is not blank and the list holds fewer than 10; otherwise nothing
addPrompt(currentPrompt) ==
    /\ events < MaxEvents
    /\ events' = events + 1
    /\ prompts' = IF Trim(currentPrompt) # << >> /\ Len(prompts) < PromptLimit
                  THEN Append(prompts, Trim(currentPrompt))
                  ELSE prompts
    /\ UNCHANGED <<clock, keywords, analyses, isRunning, currentSession, runs,
                   batchData, batchSession, isProcessing, error, batch, inflight,
                   issued, starts>>
    /\ UNCHANGED pureVars

\* PromptInput.removePrompt: filter((_, i) => i !== index), index zero-based
removePrompt(index) ==
    /\ events < MaxEvents
    /\ events' = events + 1
    /\ index < Len(prompts)
    /\ prompts' = [k \in 1..(Len(prompts) - 1) |->
                      IF k <= index THEN prompts[k] ELSE prompts[k + 1]]
    /\ UNCHANGED <<clock, keywords, analyses, isRunning, currentSession, runs,
                   batchData, batchSession, isProcessing, error, batch, inflight,
                   issued, starts>>
    /\ UNCHANGED pureVars

\* a toLowerCase that leaves the text as typed
ToLowerCase_AsTyped(s) == s

\* String.prototype.toLowerCase
ToLowerCase(s) == [k \in 1..Len(s) |-> Lower(s[k])]

\* KeywordConfig.addKeyword: the trimmed, lower-cased text is appended when it
\* is not empty and not yet in the list; otherwise nothing happens
addKeyword(currentKeyword) ==
    /\ events < MaxEvents
    /\ events' = events + 1
    /\ LET keyword == ToLowerCase(Trim(currentKeyword))
       IN keywords' = IF keyword # << >>
                         /\ \A k \in 1..Len(keywords) : keywords[k] # keyword
                      THEN Append(keywords, keyword)
                      ELSE keywords
    /\ UNCHANGED <<clock, prompts, analyses, isRunning, currentSession, runs,
                   batchData, batchSession, isProcessing, error, batch, inflight,
                   issued, starts>>
    /\ UNCHANGED pureVars

\* KeywordConfig.removeKeyword: filter(k => k !== keywordToRemove)
removeKeyword(keywordToRemove) ==
    /\ events < MaxEvents
    /\ events' = events + 1
    /\ \E k \in 1..Len(keywords) : keywords[k] = keywordToRemove
    /\ keywords' = SelectSeq(keywords, LAMBDA k : k # keywordToRemove)
    /\ UNCHANGED <<clock, prompts, analyses, isRunning, currentSession, runs,
                   batchData, batchSession, isProcessing, error, batch, inflight,
                   issued, starts>>
    /\ UNCHANGED pureVars

\* ------------------------------------------------------------ analytics
IsCompleted(a) == a.status = "completed"

totalPrompts == Len(analyses)

totalResponses == Len(SelectSeq(analyses, IsCompleted))

\* match counts of one item: keywordMatches.reduce((matchSum, match) => ..., 0)
RECURSIVE SumCounts(_)
SumCounts(ms) == IF Len(ms) = 0 THEN 0 ELSE Head(ms).count + SumCounts(Tail(ms))

\* analyses.reduce((sum, a) => sum + a.keywordMatches.reduce(...), 0)
RECURSIVE SumMatches(_)
SumMatches(items) ==
    IF Len(items) = 0 THEN 0
    ELSE SumCounts(Head(items).keywordMatches) + SumMatches(Tail(items))

totalKeywordMatches == SumMatches(analyses)

\* analyses.reduce((sum, a) => sum + (a.response?.length || 0), 0)
RECURSIVE SumLengths(_)
SumLengths(items) ==
    IF Len(items) = 0 THEN 0 ELSE Len(Head(items).response) + SumLengths(Tail(items))

\* Math.round(x / n) for x >= 0 and n > 0: halves round up
MathRound(x, n) == (2 * x + n) \div (2 * n)

\* analyses.length > 0 ? Math.round(analyses.reduce(...) / analyses.length) : 0
averageResponseLength ==
    IF Len(analyses) > 0 THEN MathRound(SumLengths(analyses), Len(analyses)) ELSE 0

\* A value held by the plain object keywordFrequency: a number, or the string
\* that + yields when its left operand is not a number.
Num(n) == [type |-> "number", n |-> n]
Str == [type |-> "string", n |-> 0]

\* keywordFrequency starts as {}: it has no own property and inherits those of
\* Object.prototype, of which the keywords of the model can spell constructor
Constructor == <<"c", "o", "n", "s", "t", "r", "u", "c", "t", "o", "r">>
ObjectPrototypeKeys == {Constructor}

\* an accumulator that starts with every configured keyword at zero
EmptyFrequency_Seeded == [k \in {keywords[j] : j \in 1..Len(keywords)} |-> Num(0)]

\* {} as Record<string, number>
EmptyFrequency == [k \in {} |-> Num(0)]

\* freq[match.keyword] || 0
GetOrZero(freq, k) ==
    IF k \in DOMAIN freq
    THEN freq[k]
    ELSE IF k \in ObjectPrototypeKeys THEN [type |-> "function", n |-> 0]
         ELSE Num(0)

\* (freq[match.keyword] || 0) + match.count
PlusCount(v, count) == IF v.type = "number" THEN Num(v.n + count) ELSE Str

\* freq[match.keyword] = (freq[match.keyword] || 0) + match.count
AddMatch(freq, m) ==
    [k \in DOMAIN freq \cup {m.keyword} |->
        IF k = m.keyword THEN PlusCount(GetOrZero(freq, k), m.count) ELSE freq[k]]

\* analysis.keywordMatches.forEach(...)
RECURSIVE AddMatches(_, _)
AddMatches(freq, ms) ==
    IF Len(ms) = 0 THEN freq ELSE AddMatches(AddMatch(freq, Head(ms)), Tail(ms))

\* analyses.reduce((freq, analysis) => ..., {})
RECURSIVE FrequencyOf(_, _)
FrequencyOf(freq, items) ==
    IF Len(items) = 0 THEN freq
    ELSE FrequencyOf(AddMatches(freq, Head(items).keywordMatches), Tail(items))

keywordFrequency == FrequencyOf(EmptyFrequency, analyses)

\* currentSession ? (currentSession.endTime || Date.now()) - startTime : 0
processingTime ==
    IF currentSession # Null
    THEN (IF currentSession[1].endTime # Null /\ currentSession[1].endTime[1] # 0
          THEN currentSession[1].endTime[1]
          ELSE clock) - currentSession[1].startTime
    ELSE 0

\* an aggregator that adds to the totals of the previous render
analytics_Accumulating ==
    [totalPrompts |-> totalPrompts,
     totalResponses |-> totalResponses,
     totalKeywordMatches |->
         totalKeywordMatches
             + (IF summary # Null THEN summary[1].data.totalKeywordMatches ELSE 0),
     averageResponseLength |-> averageResponseLength,
     keywordFrequency |-> keywordFrequency,
     processingTime |-> processingTime]

\* const analytics: AnalyticsData
analytics ==
    [totalPrompts |-> totalPrompts,
     totalResponses |-> totalResponses,
     totalKeywordMatches |-> totalKeywordMatches,
     averageResponseLength |-> averageResponseLength,
     keywordFrequency |-> keywordFrequency,
     processingTime |-> processingTime]

\* ------------------------------------------------------ AnalysisProgress
\* analyses.filter(a => a.status === status).length
CountStatus(status) ==
    Len(SelectSeq(analyses, LAMBDA a : a.status = status))

completed == CountStatus("completed")

processing == CountStatus("processing")

errors == CountStatus("error")

pending == CountStatus("pending")

\* ------------------------------------------------------- manual scheduler
AnalysisId(t, index) == [kind |-> "analysis", t |-> t, index |-> index]

\* startAnalysis: prompts.map((prompt, index) => pending placeholder)
InitialAnalyses(ps, now) ==
    [k \in 1..Len(ps) |->
        [id |-> AnalysisId(now, k - 1),
         prompt |-> ps[k],
         response |-> << >>,
         keywordMatches |-> << >>,
         timestamp |-> now,
         status |-> "pending",
         error |-> Null]]

\* a processPrompt that issues the provider call without marking the item
MarkProcessing_Noop(prev, analysisId) == prev

\* processPrompt: prev.map(a => a.id === analysisId ? {...a, status: 'processing'} : a)
MarkProcessing(prev, analysisId) ==
    [k \in 1..Len(prev) |->
        IF prev[k].id = analysisId THEN [prev[k] EXCEPT !.status = "processing"]
        ELSE prev[k]]

\* a list update that drops the result
ReplaceById_Dropped(prev, result) == prev

\* startAnalysis: prev.map(a => a.id === result.id ? result : a)
ReplaceById(prev, result) ==
    [k \in 1..Len(prev) |-> IF prev[k].id = result.id THEN result ELSE prev[k]]

\* catch: error instanceof Error ? error.message : 'Unknown error occurred'
ErrorMessage(outcome) ==
    IF outcome.isError THEN outcome.message ELSE "Unknown error occurred"

\* a processPrompt that matches against the keywords configured when the call
\* settles
PromptResult_CurrentKeywords(analysisId, prompt, kws, outcome, now) ==
    IF outcome.ok /\ ~findKeywordMatchesThrows(keywords)
    THEN [id |-> analysisId,
          prompt |-> prompt,
          response |-> outcome.text,
          keywordMatches |-> findKeywordMatches(outcome.text, keywords),
          timestamp |-> now,
          status |-> "completed",
          error |-> Null]
    ELSE [id |-> analysisId,
          prompt |-> prompt,
          response |-> << >>,
          keywordMatches |-> << >>,
          timestamp |-> now,
          status |-> "error",
          error |-> Some(ErrorMessage(IF outcome.ok THEN SyntaxErrorThrown
                                      ELSE outcome))]

\* processPrompt: the PromptAnalysis returned once generateText has settled
PromptResult(analysisId, prompt, kws, outcome, now) ==
    IF outcome.ok /\ ~findKeywordMatchesThrows(kws)
    THEN [id |-> analysisId,
          prompt |-> prompt,
          response |-> outcome.text,
          keywordMatches |-> findKeywordMatches(outcome.text, kws),
          timestamp |-> now,
          status |-> "completed",
          error |-> Null]
    ELSE [id |-> analysisId,
          prompt |-> prompt,
          response |-> << >>,
          keywordMatches |-> << >>,
          timestamp |-> now,
          status |-> "error",
          error |-> Some(ErrorMessage(IF outcome.ok THEN SyntaxErrorThrown
                                      ELSE outcome))]

\* a loop that takes the placeholders from the end of the list
AnalysisIdAt_FromEnd(ids, i) == ids[Len(ids) - i]

\* startAnalysis: const analysisId = initialAnalyses[i].id
AnalysisIdAt(ids, i) == ids[i + 1]

\* a loop that stops one prompt early
LoopDone_OneEarly(i, n) == ~(i + 2 < n)

\* startAnalysis: the loop condition i < prompts.length fails after prompt i
LoopDone(i, n) == ~(i + 1 < n)

\* a loop that does not await: the calls of all remaining prompts are issued
DispatchAll(kind, r, i, n) ==
    {[kind |-> kind, run |-> r, index |-> k] : k \in i..(n - 1)}

\* a loop that awaits a provider call it never made
Dispatch_None(kind, r, i, n) == {}

\* a loop that calls the provider for the first prompt again
Dispatch_First(kind, r, i, n) == {[kind |-> kind, run |-> r, index |-> 0]}

\* the provider call(s) issued when the loop of run r reaches index i of n
Dispatch(kind, r, i, n) == {[kind |-> kind, run |-> r, index |-> i]}

\* history of a frame: the indices of the provider calls it has issued, in the
\* order of issue
CallLog(calls, dispatched) ==
    LET idx == {c.index : c \in dispatched}
    IN calls \o [k \in 1..Cardinality(idx) |->
                    CHOOSE x \in idx : Cardinality({y \in idx : y < x}) = k - 1]

\* the frames of the calls that have returned are released
ClearDone(fs) ==
    [r \in 1..Len(fs) |-> IF fs[r].pc = "done" THEN FreeFrame ELSE fs[r]]

FreeSlots(fs) == {r \in 1..Len(fs) : fs[r].pc = "free"}

\* control: disabled={!canStart}
\* a Start control that stays enabled during a run
canStart_IgnoresRunning == Len(prompts) > 0 /\ Len(keywords) > 0

canStart == Len(prompts) > 0 /\ Len(keywords) > 0 /\ ~isRunning

\* a guard that forgets the keyword list
StartPrecondition_PromptsOnly == ~(Len(prompts) = 0)

\* startAnalysis: if (prompts.length === 0 || keywords.length === 0) return
StartPrecondition == ~(Len(prompts) = 0 \/ Len(keywords) = 0)

SessionId(now) == [kind |-> "session", t |-> now, index |-> 0]

\* startAnalysis, from the call to its first await (the provider call of prompt 0)
startAnalysis ==
    /\ events < MaxEvents
    /\ events' = events + 1
    /\ starts' = starts + 1
    /\ IF ~StartPrecondition
       THEN UNCHANGED <<clock, prompts, keywords, analyses, isRunning, currentSession,
                        runs, batchData, batchSession, isProcessing, error, batch,
                        inflight, issued>>
       ELSE
         LET initialAnalyses == InitialAnalyses(prompts, clock)
             cleared == ClearDone(runs)
             r == SetMin(FreeSlots(cleared))
         IN
         /\ FreeSlots(cleared) # {}
         /\ isRunning' = TRUE
         /\ currentSession' =
                Some([id |-> SessionId(clock),
                      prompts |-> prompts,
                      keywords |-> keywords,
                      results |-> << >>,
                      startTime |-> clock,
                      endTime |-> Null,
                      status |-> "running"])
         /\ issued' = issued \cup {SessionId(clock)}
         /\ analyses' = MarkProcessing(initialAnalyses,
                AnalysisIdAt([k \in 1..Len(prompts) |-> initialAnalyses[k].id], 0))
         /\ runs' = [cleared EXCEPT ![r] =
                [prompts |-> prompts,
                 keywords |-> keywords,
                 ids |-> [k \in 1..Len(prompts) |-> initialAnalyses[k].id],
                 i |-> 0,
                 results |-> << >>,
                 outcomes |-> << >>,
                 pc |-> "call",
                 abandoned |-> FALSE,
                 calls |-> CallLog(<< >>, Dispatch("manual", r, 0, Len(prompts))),
                 delays |-> 0]]
         /\ inflight' = inflight \cup Dispatch("manual", r, 0, Len(prompts))
         /\ UNCHANGED <<clock, prompts, keywords, batchData, batchSession,
                        isProcessing, error, batch>>
    /\ UNCHANGED pureVars

\* the session as the completion step of startAnalysis leaves it:
\* prev => prev ? {...prev, results, endTime, status: 'completed'} : null
CompleteSession(prev, results, endTime) ==
    IF prev # Null
    THEN Some([prev[1] EXCEPT !.results = results,
                              !.endTime = Some(endTime),
                              !.status = "completed"])
    ELSE Null

\* startAnalysis, resumed when the provider call of prompt i settles: the result
\* is recorded and, after the last prompt, the session is completed
ManualReturn(r, outcome) ==
    LET f == runs[r]
        n == Len(f.prompts)
        result == PromptResult(AnalysisIdAt(f.ids, f.i), f.prompts[f.i + 1],
                               f.keywords, outcome, clock)
        last == LoopDone(f.i, n)
    IN
    /\ f.pc = "call"
    /\ [kind |-> "manual", run |-> r, index |-> f.i] \in inflight
    /\ inflight' = inflight \ {[kind |-> "manual", run |-> r, index |-> f.i]}
    /\ analyses' = ReplaceById(analyses, result)
    /\ runs' = [runs EXCEPT ![r] =
                   [f EXCEPT !.results = Append(f.results, result),
                             !.outcomes = Append(f.outcomes, outcome),
                             !.pc = IF last THEN "done" ELSE "delay",
                             !.delays = IF last THEN @ ELSE @ + 1]]
    /\ IF last
       THEN /\ currentSession' =
                   CompleteSession(currentSession, Append(f.results, result), clock)
            /\ isRunning' = FALSE
       ELSE UNCHANGED <<currentSession, isRunning>>
    /\ UNCHANGED <<clock, prompts, keywords, batchData, batchSession, isProcessing,
                   error, batch, events, issued, starts>>
    /\ UNCHANGED pureVars

\* startAnalysis, resumed when the inter-call delay has elapsed: the next prompt
\* is marked processing and its provider call is issued
ManualDelayElapsed(r) ==
    LET f == runs[r] IN
    /\ f.pc = "delay"
    /\ analyses' = MarkProcessing(analyses, AnalysisIdAt(f.ids, f.i + 1))
    /\ runs' = [runs EXCEPT ![r] =
                   [f EXCEPT !.i = f.i + 1, !.pc = "call",
                             !.calls = CallLog(@, Dispatch("manual", r, f.i + 1,
                                                           Len(f.prompts)))]]
    /\ inflight' = inflight \cup Dispatch("manual", r, f.i + 1, Len(f.prompts))
    /\ UNCHANGED <<clock, prompts, keywords, isRunning, currentSession, batchData,
                   batchSession, isProcessing, error, batch, events, issued, starts>>
    /\ UNCHANGED pureVars

\* a reset that clears the items and keeps the session
resetAnalysis_KeepsSession ==
    /\ events < MaxEvents
    /\ events' = events + 1
    /\ analyses' = << >>
    /\ isRunning' = FALSE
    /\ runs' = [r \in 1..Len(runs) |->
                   IF runs[r].pc \in {"done", "free"} THEN FreeFrame
                   ELSE [runs[r] EXCEPT !.abandoned = TRUE]]
    /\ UNCHANGED <<clock, prompts, keywords, batchData, batchSession, isProcessing,
                   error, batch, inflight, issued, starts, currentSession>>
    /\ UNCHANGED pureVars

\* resetAnalysis; the calls still in flight are from now on abandoned runs
resetAnalysis ==
    /\ events < MaxEvents
    /\ events' = events + 1
    /\ analyses' = << >>
    /\ currentSession' = Null
    /\ isRunning' = FALSE
    /\ runs' = [r \in 1..Len(runs) |->
                   IF runs[r].pc \in {"done", "free"} THEN FreeFrame
                   ELSE [runs[r] EXCEPT !.abandoned = TRUE]]
    /\ UNCHANGED <<clock, prompts, keywords, batchData, batchSession, isProcessing,
                   error, batch, inflight, issued, starts>>
    /\ UNCHANGED pureVars

\* -------------------------------------------------------- batch scheduler
\* ---- parseCSV
\* String.prototype.split(sep) for a one-character separator
RECURSIVE Split(_, _)
Split(s, sep) ==
    LET \* the one-based index of the first separator at or after j, 0 if none
        RECURSIVE First(_)
        First(j) == IF j > Len(s) THEN 0 ELSE IF s[j] = sep THEN j ELSE First(j + 1)
        k == First(1)
    IN IF k = 0
       THEN <<s>>
       ELSE <<SubSeq(s, 1, k - 1)>> \o Split(SubSeq(s, k + 1, Len(s)), sep)

\* replace(/"/g, '')
RemoveQuotes(s) == SelectSeq(s, LAMBDA c : c # "\"")

\* Array.prototype.includes
Includes(xs, x) == \E k \in 1..Len(xs) : xs[k] = x

\* Array.prototype.indexOf of an element the array includes, zero-based
IndexOf(xs, x) == SetMin({k \in 1..Len(xs) : xs[k] = x}) - 1

\* the character loop over a data line: quotes toggle inQuotes and are dropped,
\* a comma outside quotes ends the field, j is one-based
RECURSIVE ScanFields(_, _, _, _, _)
ScanFields(line, j, current, inQuotes, fields) ==
    IF j > Len(line)
    THEN Append(fields, Trim(current))
    ELSE IF line[j] = "\""
    THEN ScanFields(line, j + 1, current, ~inQuotes, fields)
    ELSE IF line[j] = "," /\ ~inQuotes
    THEN ScanFields(line, j + 1, << >>, inQuotes, Append(fields, Trim(current)))
    ELSE ScanFields(line, j + 1, Append(current, line[j]), inQuotes, fields)

\* keywordsStr.split(',').map(k => k.trim()).filter(k => k)
KeywordsOf(keywordsStr) ==
    LET cells == Split(keywordsStr, ",")
    IN SelectSeq([k \in 1..Len(cells) |-> Trim(cells[k])], LAMBDA k : k # << >>)

\* the rows one line of the table contributes: none or one
RowsOfLine(rawLine, promptIndex, keywordsIndex) ==
    LET line == Trim(rawLine)
        fields == ScanFields(line, 1, << >>, FALSE, << >>)
        prompt == Trim(RemoveQuotes(fields[promptIndex + 1]))
        keywordsStr == Trim(RemoveQuotes(fields[keywordsIndex + 1]))
    IN IF line = << >> THEN << >>
       ELSE IF Len(fields) < SetMax({promptIndex + 1, keywordsIndex + 1}) THEN << >>
       ELSE IF prompt # << >> /\ keywordsStr # << >>
       THEN <<[prompt |-> prompt, keywords |-> KeywordsOf(keywordsStr)]>>
       ELSE << >>

\* the loop over lines[1..]: i is the zero-based index of the line
RECURSIVE ParseLines(_, _, _, _)
ParseLines(lines, i, promptIndex, keywordsIndex) ==
    IF ~(i < Len(lines))
    THEN << >>
    ELSE RowsOfLine(lines[i + 1], promptIndex, keywordsIndex)
             \o ParseLines(lines, i + 1, promptIndex, keywordsIndex)

PromptHeader == <<"p", "r", "o", "m", "p", "t">>
KeywordsHeader == <<"k", "e", "y", "w", "o", "r", "d", "s">>

\* parseCSV: the rows it returns or the Error it throws
parseCSV(csvText) ==
    LET lines == Split(Trim(csvText), "\n")
        cells == Split(lines[1], ",")
        headers == [k \in 1..Len(cells) |-> RemoveQuotes(Trim(cells[k]))]
    IN IF ~Includes(headers, PromptHeader) \/ ~Includes(headers, KeywordsHeader)
       THEN [threw |-> TRUE, rows |-> << >>,
             message |-> "CSV must contain \"prompt\" and \"keywords\" columns"]
       ELSE [threw |-> FALSE, message |-> "",
             rows |-> ParseLines(lines, 1, IndexOf(headers, PromptHeader),
                                 IndexOf(headers, KeywordsHeader))]

\* ---- the files a user uploads
\* lines joined by line feeds
RECURSIVE JoinLines(_)
JoinLines(lines) ==
    IF Len(lines) = 0 THEN << >>
    ELSE IF Len(lines) = 1 THEN lines[1]
    ELSE lines[1] \o <<"\n">> \o JoinLines(Tail(lines))

HeaderLine == PromptHeader \o <<",">> \o KeywordsHeader
Line1 == <<"x", ",", "c">>
Line2 == <<"y", ",", "\"", "a", "i", ",", "c", "\"">>
LineOver == <<"z", ",", "c">>

\* a row of a table that has one row more than the limit
RowOver == [prompt |-> <<"z">>, keywords |-> << <<"c">> >>]
TooManyRows == [k \in 1..(BatchRowLimit + 1) |-> RowOver]

\* a table without data rows and a table without the keywords column
NoRowsFile == JoinLines(<<HeaderLine>>)
NoKeywordsColumnFile == JoinLines(<<PromptHeader, Line1>>)

\* the two malformed tables, tables of one and of two rows, and a table of one
\* row more than the limit
UploadedFiles ==
    {NoRowsFile,
     NoKeywordsColumnFile,
     JoinLines(<<HeaderLine, Line1>>),
     JoinLines(<<HeaderLine, Line2, Line1>>),
     JoinLines(<<HeaderLine>> \o [k \in 1..(BatchRowLimit + 1) |-> LineOver])}

\* parseCSV applied to each of the uploaded files
ParsedUpload == [csvText \in UploadedFiles |-> parseCSV(csvText)]

\* an upload handler without the row limit
handleFileUpload_NoLimit(csvText) ==
    /\ events < MaxEvents
    /\ events' = events + 1
    /\ LET parsed == ParsedUpload[csvText]
           rows == parsed.rows
       IN IF parsed.threw \/ Len(rows) = 0
          THEN /\ error' = Some(IF parsed.threw THEN parsed.message
                                ELSE "No valid rows found in CSV file")
               /\ batchData' = << >>
          ELSE /\ batchData' = rows
               /\ error' = Null
    /\ UNCHANGED <<clock, prompts, keywords, analyses, isRunning, currentSession,
                   runs, batchSession, isProcessing, batch, inflight, issued,
                   starts>>
    /\ UNCHANGED pureVars

\* the message of the Error thrown inside reader.onload, if one is thrown
UploadFailure(parsed) ==
    IF parsed.threw THEN Some(parsed.message)
    ELSE IF Len(parsed.rows) = 0 THEN Some("No valid rows found in CSV file")
    ELSE IF Len(parsed.rows) > BatchRowLimit
    THEN Some("Maximum 50 rows allowed per batch")
    ELSE Null

\* an upload handler whose catch block leaves the loaded rows alone
handleFileUpload_KeepsRows(csvText) ==
    /\ events < MaxEvents
    /\ events' = events + 1
    /\ LET parsed == ParsedUpload[csvText]
       IN IF UploadFailure(parsed) # Null
          THEN /\ error' = UploadFailure(parsed)
               /\ batchData' = batchData
          ELSE /\ batchData' = parsed.rows
               /\ error' = Null
    /\ UNCHANGED <<clock, prompts, keywords, analyses, isRunning, currentSession,
                   runs, batchSession, isProcessing, batch, inflight, issued,
                   starts>>
    /\ UNCHANGED pureVars

\* handleFileUpload / reader.onload: the file is parsed and either its rows are
\* loaded or the catch block records the message and empties the rows
handleFileUpload(csvText) ==
    /\ events < MaxEvents
    /\ events' = events + 1
    /\ LET parsed == ParsedUpload[csvText]
       IN IF UploadFailure(parsed) # Null
          THEN /\ error' = UploadFailure(parsed)
               /\ batchData' = << >>
          ELSE /\ batchData' = parsed.rows
               /\ error' = Null
    /\ UNCHANGED <<clock, prompts, keywords, analyses, isRunning, currentSession,
                   runs, batchSession, isProcessing, batch, inflight, issued,
                   starts>>
    /\ UNCHANGED pureVars

\* a batch item matched against the keywords configured for manual runs
BatchResult_ConfiguredKeywords(row, i, outcome, now) ==
    IF outcome.ok
    THEN [id |-> [kind |-> "batch-analysis", t |-> now, index |-> i],
          prompt |-> row.prompt,
          response |-> outcome.text,
          keywordMatches |-> findKeywordMatches(outcome.text, keywords),
          timestamp |-> now,
          status |-> "completed",
          error |-> Null]
    ELSE [id |-> [kind |-> "batch-analysis", t |-> now, index |-> i],
          prompt |-> row.prompt,
          response |-> << >>,
          keywordMatches |-> << >>,
          timestamp |-> now,
          status |-> "error",
          error |-> Some(ErrorMessage(outcome))]

\* processBatch: the PromptAnalysis pushed once generateText has settled
BatchResult(row, i, outcome, now) ==
    IF outcome.ok /\ ~findKeywordMatchesThrows(row.keywords)
    THEN [id |-> [kind |-> "batch-analysis", t |-> now, index |-> i],
          prompt |-> row.prompt,
          response |-> outcome.text,
          keywordMatches |-> findKeywordMatches(outcome.text, row.keywords),
          timestamp |-> now,
          status |-> "completed",
          error |-> Null]
    ELSE [id |-> [kind |-> "batch-analysis", t |-> now, index |-> i],
          prompt |-> row.prompt,
          response |-> << >>,
          keywordMatches |-> << >>,
          timestamp |-> now,
          status |-> "error",
          error |-> Some(ErrorMessage(IF outcome.ok THEN SyntaxErrorThrown
                                      ELSE outcome))]

\* setBatchSession(prev => prev ? {...prev, processedRows: i} : null)
WithProcessedRows(prev, i) ==
    IF prev # Null THEN Some([prev[1] EXCEPT !.processedRows = i]) ELSE Null

BatchSessionId(now) == [kind |-> "batch-session", t |-> now, index |-> 0]

\* App.handleBatchComplete: the session installed for a finished batch
BatchSessionOf(batchResults, now) ==
    [id |-> BatchSessionId(now),
     prompts |-> [k \in 1..Len(batchResults) |-> batchResults[k].prompt],
     keywords |-> << >>,
     results |-> batchResults,
     startTime |-> SetMin({batchResults[k].timestamp : k \in 1..Len(batchResults)}),
     endTime |-> Some(SetMax({batchResults[k].timestamp : k \in 1..Len(batchResults)})),
     status |-> "completed"]

\* processBatch, from the call to its first await (the provider call of row 0)
processBatch ==
    /\ events < MaxEvents
    /\ events' = events + 1
    /\ ~(Len(batchData) = 0)
    /\ batch.pc = "idle"
    /\ isProcessing' = TRUE
    /\ error' = Null
    /\ batchSession' =
           WithProcessedRows(
               Some([id |-> [kind |-> "batch", t |-> clock, index |-> 0],
                     rows |-> batchData,
                     results |-> << >>,
                     startTime |-> clock,
                     endTime |-> Null,
                     status |-> "running",
                     totalRows |-> Len(batchData),
                     processedRows |-> 0]), 0)
    /\ batch' = [rows |-> batchData, i |-> 0, results |-> << >>, pc |-> "call",
                 calls |-> CallLog(<< >>, Dispatch("batch", 1, 0, Len(batchData))),
                 delays |-> 0]
    /\ inflight' = inflight \cup Dispatch("batch", 1, 0, Len(batchData))
    /\ UNCHANGED <<clock, prompts, keywords, analyses, isRunning, currentSession,
                   runs, batchData, issued, starts>>
    /\ UNCHANGED pureVars

\* processBatch, resumed when the provider call of row i settles; after the last
\* row the batch session is completed and the results go to handleBatchComplete
BatchReturn(outcome) ==
    LET f == batch
        n == Len(f.rows)
        results == Append(f.results, BatchResult(f.rows[f.i + 1], f.i, outcome, clock))
        last == LoopDone(f.i, n)
    IN
    /\ f.pc = "call"
    /\ [kind |-> "batch", run |-> 1, index |-> f.i] \in inflight
    /\ inflight' = inflight \ {[kind |-> "batch", run |-> 1, index |-> f.i]}
    /\ IF last
       THEN /\ batch' = IdleBatch
            /\ batchSession' =
                   IF batchSession # Null
                   THEN Some([batchSession[1] EXCEPT
                                 !.results = results,
                                 !.endTime = Some(clock),
                                 !.status = "completed",
                                 !.processedRows = n])
                   ELSE Null
            /\ analyses' = analyses \o results
            /\ currentSession' = Some(BatchSessionOf(results, clock))
            /\ issued' = issued \cup {BatchSessionId(clock)}
            /\ isProcessing' = FALSE
       ELSE /\ batch' = [f EXCEPT !.results = results, !.pc = "delay",
                                  !.delays = @ + 1]
            /\ UNCHANGED <<batchSession, analyses, currentSession, isProcessing,
                           issued>>
    /\ UNCHANGED <<clock, prompts, keywords, isRunning, runs, batchData, error,
                   events, starts>>
    /\ UNCHANGED pureVars

\* processBatch, resumed when the inter-call delay has elapsed
BatchDelayElapsed ==
    LET f == batch IN
    /\ f.pc = "delay"
    /\ batchSession' = WithProcessedRows(batchSession, f.i + 1)
    /\ batch' = [f EXCEPT !.i = f.i + 1, !.pc = "call",
                          !.calls = CallLog(@, Dispatch("batch", 1, f.i + 1,
                                                        Len(f.rows)))]
    /\ inflight' = inflight \cup Dispatch("batch", 1, f.i + 1, Len(f.rows))
    /\ UNCHANGED <<clock, prompts, keywords, analyses, isRunning, currentSession,
                   runs, batchData, isProcessing, error, events, issued, starts>>
    /\ UNCHANGED pureVars

resetBatch ==
    /\ events < MaxEvents
    /\ events' = events + 1
    /\ batchData' = << >>
    /\ batchSession' = Null
    /\ error' = Null
    /\ UNCHANGED <<clock, prompts, keywords, analyses, isRunning, currentSession,
                   runs, isProcessing, batch, inflight, issued, starts>>
    /\ UNCHANGED pureVars

\* ------------------------------------------------------------ user intents
AddPrompt == \E text \in PromptSet : addPrompt(text)

RemovePrompt == \E index \in 0..(Len(prompts) - 1) : removePrompt(index)

AddKeyword == \E keyword \in KeywordSet : addKeyword(keyword)

RemoveKeyword == \E keyword \in KeywordSet : removeKeyword(keyword)

\* Start Analysis button: disabled={!canStart}
ClickStart == canStart /\ startAnalysis

\* Reset button: disabled={isRunning}
ClickReset == ~isRunning /\ resetAnalysis

ProviderSettlesManual ==
    \E r \in 1..MaxSlots : \E outcome \in ProviderOutcomes : ManualReturn(r, outcome)

DelayElapsesManual == \E r \in 1..MaxSlots : ManualDelayElapsed(r)

\* file input: disabled={isProcessing}
UploadFile == ~isProcessing /\ \E csvText \in UploadedFiles : handleFileUpload(csvText)

\* Process Batch button: disabled={isProcessing}
ClickProcessBatch == ~isProcessing /\ processBatch

\* Reset button of the batch panel: disabled={isProcessing}
ClickResetBatch == ~isProcessing /\ resetBatch

ProviderSettlesBatch == \E outcome \in ProviderOutcomes : BatchReturn(outcome)

DelayElapsesBatch == BatchDelayElapsed

\* the application as the rendered controls drive it
Next ==
    \/ Tick
    \/ AddPrompt
    \/ RemovePrompt
    \/ AddKeyword
    \/ RemoveKeyword
    \/ ClickStart
    \/ ProviderSettlesManual
    \/ DelayElapsesManual
    \/ ClickReset
    \/ UploadFile
    \/ ClickProcessBatch
    \/ ProviderSettlesBatch
    \/ DelayElapsesBatch
    \/ ClickResetBatch

Spec == Init /\ [][Next]_vars

\* the application when every provider call settles and every delay elapses:
\* generateText resolves or rejects, and a setTimeout timer fires
Settling ==
    /\ WF_vars(ProviderSettlesManual)
    /\ WF_vars(DelayElapsesManual)
    /\ WF_vars(ProviderSettlesBatch)
    /\ WF_vars(DelayElapsesBatch)

SpecSettling == Spec /\ Settling

\* the App handlers called directly, whatever the controls' disabled state
NextDirect ==
    \/ Tick
    \/ AddPrompt
    \/ RemovePrompt
    \/ AddKeyword
    \/ RemoveKeyword
    \/ startAnalysis
    \/ ProviderSettlesManual
    \/ DelayElapsesManual
    \/ resetAnalysis

SpecDirect == Init /\ [][NextDirect]_vars

\* ------------------------------------------- findKeywordMatches on its own
\* the application state in which nothing has been entered or started
Untouched ==
    /\ clock = 0
    /\ prompts = << >>
    /\ keywords = << >>
    /\ isRunning = FALSE
    /\ runs = [r \in 1..MaxSlots |-> FreeFrame]
    /\ batchData = << >>
    /\ batchSession = Null
    /\ isProcessing = FALSE
    /\ error = Null
    /\ batch = IdleBatch
    /\ inflight = {}
    /\ events = 0
    /\ issued = {}
    /\ starts = 0

InitMatcher ==
    /\ Untouched
    /\ analyses = << >>
    /\ currentSession = Null
    /\ mText \in MatcherTexts
    /\ mKeywords \in MatcherKeywordLists
    /\ mMatches = Null
    /\ summary = Null
    /\ csvFile = << >>
    /\ csvResult = Null
    /\ exec = IdleExec

\* findKeywordMatches(text, keywords) is called and returns
Match ==
    /\ mMatches = Null
    /\ mMatches' = Some(findKeywordMatches(mText, mKeywords))
    /\ UNCHANGED <<clock, prompts, keywords, analyses, isRunning, currentSession,
                   runs, batchData, batchSession, isProcessing, error, batch,
                   inflight, events, issued, starts, mText, mKeywords, summary,
                   csvFile, csvResult, exec>>

NextMatcher == Match

SpecMatcher == InitMatcher /\ [][NextMatcher]_vars

\* keywords.map moves on to keyword k: after the last keyword the filtered
\* records are returned, an invalid pattern throws out of the function, and
\* otherwise the two regular expressions are compiled and the exec loop starts
EnterKeyword(k, records) ==
    IF k > Len(mKeywords)
    THEN /\ exec' = [IdleExec EXCEPT !.pc = "returned", !.records = records]
         /\ mMatches' = Some(SelectSeq(records, HasCount))
    ELSE IF RegExpThrows(mKeywords[k])
    THEN /\ exec' = [IdleExec EXCEPT !.pc = "threw", !.k = k, !.records = records]
         /\ mMatches' = mMatches
    ELSE /\ exec' = [IdleExec EXCEPT !.pc = "loop", !.k = k, !.records = records]
         /\ mMatches' = mMatches

\* findKeywordMatches(text, keywords) is called
ExecCall ==
    /\ exec.pc = "idle"
    /\ EnterKeyword(1, << >>)
    /\ UNCHANGED <<clock, prompts, keywords, analyses, isRunning, currentSession,
                   runs, batchData, batchSession, isProcessing, error, batch,
                   inflight, events, issued, starts, mText, mKeywords, summary,
                   csvFile, csvResult>>

\* one evaluation of the loop condition (match = searchRegex.exec(text)) !== null
ExecLoop ==
    /\ exec.pc = "loop"
    /\ LET keyword == mKeywords[exec.k]
           index == ExecIndex(mText, keyword, exec.lastIndex)
       IN IF index = -1
          THEN EnterKeyword(exec.k + 1,
                            Append(exec.records,
                                   [keyword |-> keyword,
                                    count |-> Len(MatchAll(mText, keyword, 0)),
                                    positions |-> exec.positions]))
          ELSE /\ exec' = [exec EXCEPT
                              !.pc = "push",
                              !.match = index,
                              !.lastIndex =
                                  LastIndexAfter(index,
                                                 MatchLengthAt(mText, keyword, index))]
               /\ mMatches' = mMatches
    /\ UNCHANGED <<clock, prompts, keywords, analyses, isRunning, currentSession,
                   runs, batchData, batchSession, isProcessing, error, batch,
                   inflight, events, issued, starts, mText, mKeywords, summary,
                   csvFile, csvResult>>

\* the loop body: positions.push(match.index)
ExecPush ==
    /\ exec.pc = "push"
    /\ exec' = [exec EXCEPT !.pc = "loop", !.positions = Push(@, exec.match)]
    /\ UNCHANGED <<clock, prompts, keywords, analyses, isRunning, currentSession,
                   runs, batchData, batchSession, isProcessing, error, batch,
                   inflight, events, issued, starts, mText, mKeywords, mMatches,
                   summary, csvFile, csvResult>>

\* the arguments of the step-by-step run: literal patterns, the wildcard, a
\* pattern that can match the empty string and an invalid pattern
ExecTexts == SeqsUpTo({"a", "b"}, MaxLen)
ExecKeywords == {<<"a">>, <<".">>, <<"a", "b">>, <<"a", "*">>, <<"(">>}
ExecKeywordLists == SeqsUpTo(ExecKeywords, 2)

InitExec ==
    /\ Untouched
    /\ analyses = << >>
    /\ currentSession = Null
    /\ mText \in ExecTexts
    /\ mKeywords \in ExecKeywordLists
    /\ mMatches = Null
    /\ summary = Null
    /\ csvFile = << >>
    /\ csvResult = Null
    /\ exec = IdleExec

NextExec ==
    \/ ExecCall
    \/ ExecLoop
    \/ ExecPush

\* a call that has started keeps running: nothing preempts the loop
SpecExec == InitExec /\ [][NextExec]_vars /\ WF_vars(NextExec)

\* ------------------------------------------------- analytics on its own
\* the keywords and the provider outcomes of the runs that are summarised
AnalyticsKeywords == << <<"c">>, Constructor >>
AnalyticsOutcomes ==
    {[ok |-> TRUE, text |-> t, isError |-> FALSE, message |-> ""] :
        t \in {<< >>, T1, <<"c", "c">>, Constructor}}
    \cup {[ok |-> FALSE, text |-> << >>, isError |-> TRUE, message |-> "quota"]}

\* the items of a manual run started at time now whose calls settled as outs
ItemsOfRun(outs, now) ==
    [k \in 1..Len(outs) |->
        PromptResult(AnalysisId(now, k - 1), <<"p">>, AnalyticsKeywords, outs[k], now)]

\* the state startAnalysis leaves behind when its calls have settled as outs,
\* the whole run at time 1; no run has been started when outs is empty
AfterRun(outs) ==
    LET n == Len(outs)
        ps == [k \in 1..n |-> <<"p">>]
        items == ItemsOfRun(outs, 1)
        session == [id |-> SessionId(1), prompts |-> ps,
                    keywords |-> AnalyticsKeywords, results |-> << >>,
                    startTime |-> 1, endTime |-> Null, status |-> "running"]
        frame == [prompts |-> ps, keywords |-> AnalyticsKeywords,
                  ids |-> [k \in 1..n |-> AnalysisId(1, k - 1)], i |-> n - 1,
                  results |-> items, outcomes |-> outs, pc |-> "done",
                  abandoned |-> FALSE, calls |-> [k \in 1..n |-> k - 1],
                  delays |-> n - 1]
    IN
    /\ clock = 1
    /\ prompts = ps
    /\ keywords = IF n = 0 THEN << >> ELSE AnalyticsKeywords
    /\ analyses = items
    /\ isRunning = FALSE
    /\ currentSession = IF n = 0 THEN Null ELSE CompleteSession(Some(session), items, 1)
    /\ runs = [r \in 1..MaxSlots |-> IF r = 1 /\ n > 0 THEN frame ELSE FreeFrame]
    /\ issued = IF n = 0 THEN {} ELSE {SessionId(1)}
    /\ starts = IF n = 0 THEN 0 ELSE 1

InitAnalytics ==
    /\ \E outs \in SeqsUpTo(AnalyticsOutcomes, MaxItems) : AfterRun(outs)
    /\ batchData = << >>
    /\ batchSession = Null
    /\ isProcessing = FALSE
    /\ error = Null
    /\ batch = IdleBatch
    /\ inflight = {}
    /\ events = 0
    /\ mText = << >>
    /\ mKeywords = << >>
    /\ mMatches = Null
    /\ summary = Null
    /\ csvFile = << >>
    /\ csvResult = Null
    /\ exec = IdleExec

\* how often the analytics have been computed
Renders == IF summary = Null THEN 0 ELSE summary[1].renders

\* App renders: the analytics are computed from analyses and currentSession
Summarize ==
    /\ Renders < MaxRenders
    /\ summary' = Some([data |-> analytics, renders |-> Renders + 1])
    /\ UNCHANGED <<clock, prompts, keywords, analyses, isRunning, currentSession,
                   runs, batchData, batchSession, isProcessing, error, batch,
                   inflight, events, issued, starts, mText, mKeywords, mMatches,
                   csvFile, csvResult, exec>>

NextAnalytics ==
    \/ Summarize
    \/ Tick

SpecAnalytics == InitAnalytics /\ [][NextAnalytics]_vars

\* ------------------------------------------- the prompt list at its limit
\* what can be in the prompt box when addPrompt fires, blank texts included
TypedPrompts == PromptSet \cup {<< >>, <<" ">>, <<"\n", " ">>}

\* the state after PromptLimit - 1 prompts and one keyword have been added
InitPrompts ==
    /\ clock = 0
    /\ prompts = [k \in 1..(PromptLimit - 1) |-> <<"p">>]
    /\ keywords = << <<"c">> >>
    /\ analyses = << >>
    /\ isRunning = FALSE
    /\ currentSession = Null
    /\ runs = [r \in 1..MaxSlots |-> FreeFrame]
    /\ batchData = << >>
    /\ batchSession = Null
    /\ isProcessing = FALSE
    /\ error = Null
    /\ batch = IdleBatch
    /\ inflight = {}
    /\ events = 0
    /\ issued = {}
    /\ starts = 0
    /\ mText = << >>
    /\ mKeywords = << >>
    /\ mMatches = Null
    /\ summary = Null
    /\ csvFile = << >>
    /\ csvResult = Null
    /\ exec = IdleExec

\* addPrompt fires with whatever the box holds
TypePrompt == \E currentPrompt \in TypedPrompts : addPrompt(currentPrompt)

NextPrompts ==
    \/ TypePrompt
    \/ RemovePrompt
    \/ ClickStart

SpecPrompts == InitPrompts /\ [][NextPrompts]_vars

\* ----------------------------------------------------- parseCSV on its own
\* header lines: the two columns in either order, quoted and spaced, behind a
\* third column, and with the keywords column missing
HeaderLines ==
    {HeaderLine,
     KeywordsHeader \o <<",">> \o PromptHeader,
     <<"\"">> \o PromptHeader \o <<"\"", ",", " ">> \o KeywordsHeader,
     <<"i", "d", ",">> \o HeaderLine,
     PromptHeader}

\* data lines over letters, the comma, the quote and the blank
DataLines == SeqsUpTo({"x", "y", ",", "\"", " "}, MaxLine)

\* short data lines for tables of two rows
ShortLines == SeqsUpTo({"x", "y", ","}, 3)

\* a header with one data line, and the plain header with two data lines
ParserFiles ==
    {JoinLines(<<h, l>>) : h \in HeaderLines, l \in DataLines}
    \cup {JoinLines(<<HeaderLine, ls[1], ls[2]>>) : ls \in ShortLines \X ShortLines}

InitParser ==
    /\ Untouched
    /\ analyses = << >>
    /\ currentSession = Null
    /\ mText = << >>
    /\ mKeywords = << >>
    /\ mMatches = Null
    /\ summary = Null
    /\ csvFile \in ParserFiles
    /\ csvResult = Null
    /\ exec = IdleExec

\* parseCSV(csvText) is called and returns or throws
Parse ==
    /\ csvResult = Null
    /\ csvResult' = Some(parseCSV(csvFile))
    /\ UNCHANGED <<clock, prompts, keywords, analyses, isRunning, currentSession,
                   runs, batchData, batchSession, isProcessing, error, batch,
                   inflight, events, issued, starts, mText, mKeywords, mMatches,
                   summary, csvFile, exec>>

NextParser == Parse

SpecParser == InitParser /\ [][NextParser]_vars

\* ------------------------------------------ runs over any keyword list
\* the keywords a user may configure, an invalid pattern among them
RunKeywords == KeywordSet \cup {<<"(">>}

\* the states in which one or two prompts and one or two different keywords
\* have been added
InitKeywords ==
    /\ clock = 0
    /\ prompts \in {<< <<"p">> >>, << <<"p">>, <<"q">> >>}
    /\ keywords \in {kws \in SeqsUpTo(RunKeywords, 2) :
                        /\ kws # << >>
                        /\ \A j, k \in 1..Len(kws) : j # k => kws[j] # kws[k]}
    /\ analyses = << >>
    /\ isRunning = FALSE
    /\ currentSession = Null
    /\ runs = [r \in 1..MaxSlots |-> FreeFrame]
    /\ batchData = << >>
    /\ batchSession = Null
    /\ isProcessing = FALSE
    /\ error = Null
    /\ batch = IdleBatch
    /\ inflight = {}
    /\ events = 0
    /\ issued = {}
    /\ starts = 0
    /\ mText = << >>
    /\ mKeywords = << >>
    /\ mMatches = Null
    /\ summary = Null
    /\ csvFile = << >>
    /\ csvResult = Null
    /\ exec = IdleExec

NextKeywords ==
    \/ ClickStart
    \/ ProviderSettlesManual
    \/ DelayElapsesManual

SpecKeywords == InitKeywords /\ [][NextKeywords]_vars

\* --------------------------------------------- faults of the orchestration
\* what an orchestration step may throw: an Error or some other value
Faults ==
    {[isError |-> TRUE, message |-> "internal"], [isError |-> FALSE, message |-> ""]}

\* the loop of startAnalysis throws when it resumes after the call of prompt i:
\* no try block encloses the loop, so the async function rejects and nothing
\* after the throw is executed
ManualFault(r, fault) ==
    LET f == runs[r] IN
    /\ f.pc = "call"
    /\ [kind |-> "manual", run |-> r, index |-> f.i] \in inflight
    /\ inflight' = inflight \ {[kind |-> "manual", run |-> r, index |-> f.i]}
    /\ runs' = [runs EXCEPT ![r] = [f EXCEPT !.pc = "rejected"]]
    /\ UNCHANGED <<clock, prompts, keywords, analyses, isRunning, currentSession,
                   batchData, batchSession, isProcessing, error, batch, events,
                   issued, starts>>
    /\ UNCHANGED pureVars

\* the loop of processBatch throws when it resumes after the call of row i: the
\* outer catch block records the message and marks the batch session, and the
\* finally block clears isProcessing
BatchFault(fault) ==
    LET f == batch IN
    /\ f.pc = "call"
    /\ [kind |-> "batch", run |-> 1, index |-> f.i] \in inflight
    /\ inflight' = inflight \ {[kind |-> "batch", run |-> 1, index |-> f.i]}
    /\ error' = Some(IF fault.isError THEN fault.message
                     ELSE "Batch processing failed")
    /\ batchSession' = IF batchSession # Null
                       THEN Some([batchSession[1] EXCEPT !.status = "error"])
                       ELSE Null
    /\ isProcessing' = FALSE
    /\ batch' = IdleBatch
    /\ UNCHANGED <<clock, prompts, keywords, analyses, isRunning, currentSession,
                   runs, batchData, events, issued, starts>>
    /\ UNCHANGED pureVars

\* the application with an orchestration that may fault
NextFaults ==
    \/ AddPrompt
    \/ AddKeyword
    \/ ClickStart
    \/ ProviderSettlesManual
    \/ DelayElapsesManual
    \/ UploadFile
    \/ ClickProcessBatch
    \/ ProviderSettlesBatch
    \/ DelayElapsesBatch
    \/ \E r \in 1..MaxSlots : \E fault \in Faults : ManualFault(r, fault)
    \/ \E fault \in Faults : BatchFault(fault)

SpecFaults == Init /\ [][NextFaults]_vars

\* ------------------------------------------------- the keyword panel
\* what can be in the keyword box when addKeyword fires: keywords as they end
\* up in the list, variants in case and surrounding blanks, and blank texts
TypedKeywords ==
    KeywordSet \cup {<<"C">>, <<" ", "c", " ">>, <<"A", "I">>, <<"a", "I", "\t">>,
                    <<"b">>, <<" ">>, << >>}

\* addKeyword fires with whatever the box holds
TypeKeyword == \E currentKeyword \in TypedKeywords : addKeyword(currentKeyword)

\* the remove button of a keyword badge
ClickRemoveKeyword ==
    \E k \in 1..Len(keywords) : removeKeyword(keywords[k])

NextKeywordPanel ==
    \/ TypeKeyword
    \/ ClickRemoveKeyword
    \/ Tick

SpecKeywordPanel == Init /\ [][NextKeywordPanel]_vars

\* -------------------------------------- the App variant of part_003
\* The variant differs from App.tsx in processPrompt, which takes the index of
\* the prompt instead of the placeholder's id and builds its own item:
\*   id: `analysis-${Date.now()}-${index}`, timestamp: Date.now()
\* both read when processPrompt is called.  ids[i + 1] of the frame holds the id
\* processPrompt built for prompt i.  The call for prompt 0 is made in the
\* continuation that created the placeholders (startAnalysis above).

\* startAnalysis of the variant, resumed when the provider call of prompt i
\* settles: {...analysis, response, keywordMatches, status} replaces the item
\* of the same id
ManualReturn003(r, outcome) ==
    LET f == runs[r]
        n == Len(f.prompts)
        analysisId == AnalysisIdAt(f.ids, f.i)
        result == PromptResult(analysisId, f.prompts[f.i + 1], f.keywords,
                               outcome, analysisId.t)
        last == LoopDone(f.i, n)
    IN
    /\ f.pc = "call"
    /\ [kind |-> "manual", run |-> r, index |-> f.i] \in inflight
    /\ inflight' = inflight \ {[kind |-> "manual", run |-> r, index |-> f.i]}
    /\ analyses' = ReplaceById(analyses, result)
    /\ runs' = [runs EXCEPT ![r] =
                   [f EXCEPT !.results = Append(f.results, result),
                             !.outcomes = Append(f.outcomes, outcome),
                             !.pc = IF last THEN "done" ELSE "delay",
                             !.delays = IF last THEN @ ELSE @ + 1]]
    /\ IF last
       THEN /\ currentSession' =
                   CompleteSession(currentSession, Append(f.results, result), clock)
            /\ isRunning' = FALSE
       ELSE UNCHANGED <<currentSession, isRunning>>
    /\ UNCHANGED <<clock, prompts, keywords, batchData, batchSession, isProcessing,
                   error, batch, events, issued, starts>>
    /\ UNCHANGED pureVars

\* startAnalysis of the variant, resumed when the inter-call delay has elapsed:
\* processPrompt(prompts[i], i) builds its item from the clock as it is now,
\* marks the item of that id processing and calls the provider
ManualDelayElapsed003(r) ==
    LET f == runs[r]
        analysisId == AnalysisId(clock, f.i + 1)
    IN
    /\ f.pc = "delay"
    /\ analyses' = MarkProcessing(analyses, analysisId)
    /\ runs' = [runs EXCEPT ![r] =
                   [f EXCEPT !.i = f.i + 1, !.pc = "call",
                             !.ids = [@ EXCEPT ![f.i + 2] = analysisId],
                             !.calls = CallLog(@, Dispatch("manual", r, f.i + 1,
                                                           Len(f.prompts)))]]
    /\ inflight' = inflight \cup Dispatch("manual", r, f.i + 1, Len(f.prompts))
    /\ UNCHANGED <<clock, prompts, keywords, isRunning, currentSession, batchData,
                   batchSession, isProcessing, error, batch, events, issued, starts>>
    /\ UNCHANGED pureVars

ProviderSettles003 ==
    \E r \in 1..MaxSlots : \E outcome \in ProviderOutcomes : ManualReturn003(r, outcome)

DelayElapses003 == \E r \in 1..MaxSlots : ManualDelayElapsed003(r)

Next003 ==
    \/ Tick
    \/ AddPrompt
    \/ AddKeyword
    \/ ClickStart
    \/ ProviderSettles003
    \/ DelayElapses003

Spec003 == Init /\ [][Next003]_vars


\* ================================================================= claims
Terminal(a) == a.status \in {"completed", "error"}

IsManualItem(a) == a.id.kind = "analysis"

IsBatchItem(a) == a.id.kind = "batch-analysis"

\* the slots whose startAnalysis call has run to its end and is not yet released
DoneRuns == {r \in 1..MaxSlots : runs[r].pc = "done"}

\* the number of provider calls of a finished run that did not fail
SucceededCalls(f) == Cardinality({k \in 1..Len(f.outcomes) : f.outcomes[k].ok})

\* the completed batch items that were appended behind the n items of a manual run
CompletedBatchItemsAfter(n) ==
    Cardinality({k \in (n + 1)..Len(analyses) :
                    IsBatchItem(analyses[k]) /\ analyses[k].status = "completed"})

\* what a finished manual run leaves in the item list and the session
RunOutcomeRecorded(f) ==
    /\ Len(f.outcomes) = Len(f.prompts)
    /\ Len(analyses) >= Len(f.prompts)
    /\ \A k \in 1..Len(f.prompts) :
          LET a == analyses[k]
              o == f.outcomes[k]
          IN
          /\ a.id = f.ids[k]
          /\ a.prompt = f.prompts[k]
          /\ Terminal(a)
          /\ o.ok => /\ a.status = "completed"
                     /\ a.response = o.text
                     /\ a.keywordMatches = findKeywordMatches(o.text, f.keywords)
                     /\ (o.text = T1 /\ f.keywords = << <<"a", "i">>, <<"c">> >>) =>
                            a.keywordMatches =
                                << [keyword |-> <<"a", "i">>, count |-> 1,
                                    positions |-> <<0>>],
                                   [keyword |-> <<"c">>, count |-> 1,
                                    positions |-> <<2>>] >>
          /\ ~o.ok => /\ a.status = "error"
                      /\ a.error = Some(o.message)
                      /\ o.message # ""
    /\ currentSession # Null
    /\ currentSession[1].status = "completed"

\* the step in which the startAnalysis call of slot r resumes for the last time
RunEnds(r) == runs[r].pc = "call" /\ runs'[r].pc = "done"

\* C1: a manual run is never aborted by a failed provider call: when the run
\* ends every item is terminal, an item whose call failed is in status error
\* with the captured message, every other item is completed with the matches of
\* its own response, the session is completed, and totalResponses equals the
\* number of calls that did not fail.
C1_RunSurvivesFailures ==
    [][\A r \in 1..MaxSlots :
          RunEnds(r) =>
              /\ RunOutcomeRecorded(runs[r])'
              /\ totalResponses' = SucceededCalls(runs[r])']_vars

\* C1 holds once the completed items a batch run appended to the item list
\* during the manual run are counted apart
C1_ExceptBatchItems ==
    [][\A r \in 1..MaxSlots :
          RunEnds(r) =>
              /\ RunOutcomeRecorded(runs[r])'
              /\ totalResponses' =
                     SucceededCalls(runs[r])'
                         + CompletedBatchItemsAfter(Len(runs[r].prompts))']_vars

\* three prompts, the second call failed: items 0 and 2 completed, item 1 error
C1_Witness ==
    \E r \in DoneRuns :
        /\ Len(runs[r].outcomes) = 3
        /\ runs[r].outcomes[1].ok /\ ~runs[r].outcomes[2].ok /\ runs[r].outcomes[3].ok
        /\ analyses[1].status = "completed"
        /\ analyses[2].status = "error"
        /\ analyses[3].status = "completed"
        /\ totalResponses = 2

\* C2: within one session at most one provider call is outstanding, and the
\* call of prompt i is outstanding only when the items of all earlier prompts
\* have been fully updated.
C2_OneOutstandingCall ==
    /\ \A c1, c2 \in inflight : (c1.kind = c2.kind /\ c1.run = c2.run) => c1 = c2
    /\ \A c \in inflight :
          IF c.kind = "manual"
          THEN /\ runs[c.run].pc = "call"
               /\ runs[c.run].i = c.index
               /\ Len(runs[c.run].results) = c.index
               /\ \A k \in 1..c.index : Terminal(analyses[k])
          ELSE /\ batch.pc = "call"
               /\ batch.i = c.index
               /\ Len(batch.results) = c.index
               /\ \A k \in 1..c.index : Terminal(batch.results[k])

\* the second provider call of a manual run is outstanding and the first item
\* is terminal
C2_Witness ==
    /\ [kind |-> "manual", run |-> 1, index |-> 1] \in inflight
    /\ Terminal(analyses[1])

\* C3: the items of a run become terminal in input order.
C3_TerminalInInputOrder ==
    \A i, j \in 1..Len(analyses) :
        (i < j /\ IsManualItem(analyses[i]) /\ IsManualItem(analyses[j])
               /\ Terminal(analyses[j])) => Terminal(analyses[i])

\* the second item of a manual run has become terminal
C3_Witness ==
    /\ Len(analyses) >= 2
    /\ IsManualItem(analyses[1]) /\ IsManualItem(analyses[2])
    /\ Terminal(analyses[2])

\* a step of the item lifecycle
LifecycleStep(a, b) ==
    \/ b = a
    \/ a.status = "pending" /\ b.status = "processing"
    \/ a.status = "processing" /\ Terminal(b)

\* while the first provider call of a run is outstanding the item list holds one
\* item per prompt in input order, the first processing and the others pending
PlaceholdersInOrder ==
    \A r \in 1..MaxSlots :
        (runs[r].pc = "call" /\ runs[r].i = 0) =>
            /\ Len(analyses) >= Len(runs[r].prompts)
            /\ \A k \in 1..Len(runs[r].prompts) :
                  /\ analyses[k].prompt = runs[r].prompts[k]
                  /\ analyses[k].id = runs[r].ids[k]
                  /\ analyses[k].status = IF k = 1 THEN "processing" ELSE "pending"

\* the item of every outstanding provider call of a manual run is processing
CalledItemsProcessing ==
    \A c \in inflight :
        c.kind = "manual" => analyses[c.index + 1].status = "processing"

\* C4: a manual run creates one placeholder per prompt in input order before its
\* first provider call; an item is processing while its provider call is
\* outstanding, moves only pending -> processing -> (completed | error), and
\* does not change once it is terminal.
C4_ItemLifecycle ==
    /\ [](PlaceholdersInOrder /\ CalledItemsProcessing)
    /\ [][\A k \in 1..Len(analyses) :
             (starts' = starts /\ k <= Len(analyses')) =>
                 /\ LifecycleStep(analyses[k], analyses'[k])
                 /\ analyses'[k].id = analyses[k].id
                 /\ Terminal(analyses[k]) => analyses'[k] = analyses[k]]_vars

\* the first item is terminal and the second is processing
C4_Witness ==
    /\ Len(analyses) >= 2
    /\ IsManualItem(analyses[1]) /\ Terminal(analyses[1])
    /\ IsManualItem(analyses[2]) /\ analyses[2].status = "processing"

\* C5: the session is completed only after the last item is terminal: whenever
\* currentSession.status is completed no item of analyses is pending or
\* processing.
C5_CompletedOnlyAfterLastItem ==
    (currentSession # Null /\ currentSession[1].status = "completed") =>
        \A k \in 1..Len(analyses) : Terminal(analyses[k])

\* a step of run r, whose startAnalysis call was abandoned by resetAnalysis
AbandonedRunSteps(r) ==
    /\ runs[r].abandoned
    /\ runs[r].pc \in {"call", "delay"}
    /\ runs'[r] # runs[r]

\* C6: after resetAnalysis the late provider results and the completion step of
\* the abandoned run change neither the items nor currentSession nor isRunning.
C6_AbandonedRunIgnored ==
    [][\A r \in 1..MaxSlots :
          AbandonedRunSteps(r) =>
              UNCHANGED <<analyses, currentSession, isRunning>>]_vars

\* the kind of item a session of each kind holds
ItemKindOf(sessionId) ==
    IF sessionId.kind = "session" THEN "analysis" ELSE "batch-analysis"

\* C7: overlapping manual and batch runs do not write into each other's
\* session: currentSession.results holds only items produced by the kind of run
\* that created the session id.
C7_SessionHoldsOwnResults ==
    currentSession # Null =>
        \A k \in 1..Len(currentSession[1].results) :
            currentSession[1].results[k].id.kind = ItemKindOf(currentSession[1].id)

\* C8: a start that follows a reset creates a session whose id differs from the
\* id of every earlier session and an item list with one item per prompt.
C8_FreshSessionAfterReset ==
    [][(starts' # starts /\ StartPrecondition /\ currentSession = Null) =>
          /\ currentSession'[1].id \notin issued
          /\ Len(analyses') = Len(prompts)]_vars

\* C9: startAnalysis with an empty prompt list or an empty keyword list leaves
\* all state unchanged (no session, no item, no provider call, isRunning as it
\* was), and the Start control is enabled only when both lists are non-empty.
C9_EmptyInputStartsNothing ==
    /\ [](canStart => (Len(prompts) > 0 /\ Len(keywords) > 0))
    /\ [][(starts' # starts /\ (Len(prompts) = 0 \/ Len(keywords) = 0)) =>
             UNCHANGED <<clock, prompts, keywords, analyses, isRunning,
                         currentSession, runs, batchData, batchSession,
                         isProcessing, error, batch, inflight, issued>>]_vars

\* startAnalysis has been called with prompts and no keyword, and nothing started
C9_Witness ==
    /\ starts = 1
    /\ Len(prompts) > 0 /\ Len(keywords) = 0
    /\ issued = {} /\ currentSession = Null /\ inflight = {} /\ ~isRunning

\* the data-model invariant of one item
ItemInvariant(a) ==
    CASE a.status = "completed" -> Len(a.response) > 0 /\ a.error = Null
      [] a.status = "error" ->
             /\ a.error # Null /\ Len(a.error[1]) > 0
             /\ Len(a.response) = 0 /\ Len(a.keywordMatches) = 0
      [] OTHER ->
             Len(a.response) = 0 /\ Len(a.keywordMatches) = 0 /\ a.error = Null

\* C10: every item satisfies the data-model invariant: completed items have a
\* non-empty response and no error, error items have a message and neither
\* response nor matches, pending and processing items have none of the three.
C10_ItemDataInvariant ==
    \A k \in 1..Len(analyses) : ItemInvariant(analyses[k])

\* the keyword, read as literal text, occurs in the text at offset pos
LiteralAt(text, keyword, pos) ==
    /\ pos + Len(keyword) <= Len(text)
    /\ \A j \in 1..Len(keyword) : Lower(text[pos + j]) = Lower(keyword[j])

\* the pattern of the keyword matches somewhere in the text
MatchesSomewhere(text, keyword) ==
    \E pos \in 0..Len(text) : MatchesAt(text, keyword, pos)

\* C11: findKeywordMatches returns no record with count 0: a keyword without
\* an occurrence is left out of the output.
C11_NoZeroCount ==
    mMatches # Null =>
        /\ \A k \in 1..Len(mMatches[1]) : mMatches[1][k].count > 0
        /\ \A j \in 1..Len(mKeywords) :
              ~MatchesSomewhere(mText, mKeywords[j]) =>
                  \A k \in 1..Len(mMatches[1]) :
                      mMatches[1][k].keyword # mKeywords[j]

\* of two different keywords one occurs in the text and the other does not
C11_Witness ==
    /\ mMatches # Null
    /\ Len(mKeywords) = 2 /\ mKeywords[1] # mKeywords[2]
    /\ Len(mMatches[1]) = 1

\* the positions of a record are as many as its count and strictly increasing
PositionsWellFormed(m) ==
    /\ Len(m.positions) = m.count
    /\ \A i \in 1..(Len(m.positions) - 1) : m.positions[i] < m.positions[i + 1]

\* C12: every record has as many positions as its count, the positions are
\* strictly increasing, and each is the zero-based offset at which an
\* occurrence of the keyword starts in the text.
C12_PositionsOfOccurrences ==
    mMatches # Null =>
        \A k \in 1..Len(mMatches[1]) :
            /\ PositionsWellFormed(mMatches[1][k])
            /\ \A i \in 1..Len(mMatches[1][k].positions) :
                   LiteralAt(mText, mMatches[1][k].keyword, mMatches[1][k].positions[i])

\* C12 holds when "occurrence" is read as a match of the keyword taken as a
\* regular expression
C12_PositionsOfPatternMatches ==
    mMatches # Null =>
        \A k \in 1..Len(mMatches[1]) :
            /\ PositionsWellFormed(mMatches[1][k])
            /\ \A i \in 1..Len(mMatches[1][k].positions) :
                   MatchesAt(mText, mMatches[1][k].keyword, mMatches[1][k].positions[i])

\* C13: the records come in the relative order of their keywords in the input
\* list, whatever their counts.
C13_InputOrder ==
    mMatches # Null =>
        \E f \in [1..Len(mMatches[1]) -> 1..Len(mKeywords)] :
            /\ \A k \in 1..Len(mMatches[1]) : mMatches[1][k].keyword = mKeywords[f[k]]
            /\ \A k \in 1..(Len(mMatches[1]) - 1) : f[k] < f[k + 1]

\* two keywords matched, the first less often than the second
C13_Witness ==
    /\ mMatches # Null
    /\ Len(mMatches[1]) = 2
    /\ mMatches[1][1].count < mMatches[1][2].count

\* C14 (as amended): matching is case-insensitive: keyword "Cat" in
\* "cat CAT cAt" gives count 3 and positions [0, 4, 8].
C14_CaseInsensitive ==
    (mMatches # Null /\ mText = CatText /\ mKeywords = <<Cat>>) =>
        mMatches[1] = <<[keyword |-> Cat, count |-> 3, positions |-> <<0, 4, 8>>]>>

\* C14 as stated: keyword "Cat" in "cat CAT cAt" gives count 3 and positions
\* [0, 4, 9].
C14_Original ==
    (mMatches # Null /\ mText = CatText /\ mKeywords = <<Cat>>) =>
        mMatches[1] = <<[keyword |-> Cat, count |-> 3, positions |-> <<0, 4, 9>>]>>

\* "Cat" has been matched against "cat CAT cAt"
C14_Witness == mMatches # Null /\ mText = CatText /\ mKeywords = <<Cat>>

\* the positions of m are those of a left-to-right scan of the text in which
\* each search starts at the end of the previous match
GreedyScan(text, m) ==
    LET n == Len(m.positions)
        from(i) == IF i = 1 THEN 0 ELSE m.positions[i - 1] + Len(m.keyword)
    IN /\ \A i \in 1..n :
             /\ m.positions[i] >= from(i)
             /\ MatchesAt(text, m.keyword, m.positions[i])
             /\ \A q \in from(i)..(m.positions[i] - 1) : ~MatchesAt(text, m.keyword, q)
       /\ \A q \in from(n + 1)..Len(text) : ~MatchesAt(text, m.keyword, q)

\* C15: occurrences are counted left to right without overlap, each search
\* resuming after the end of the previous match: keyword "aa" in "aaaa" gives
\* count 2 and positions [0, 2].
C15_NonOverlapping ==
    mMatches # Null =>
        /\ \A k \in 1..Len(mMatches[1]) :
              /\ GreedyScan(mText, mMatches[1][k])
              /\ mMatches[1][k].count = Len(mMatches[1][k].positions)
        /\ (mText = <<"a", "a", "a", "a">> /\ mKeywords = << <<"a", "a">> >>) =>
              mMatches[1] = <<[keyword |-> <<"a", "a">>, count |-> 2,
                               positions |-> <<0, 2>>]>>

\* "aa" has been matched against "aaaa"
C15_Witness ==
    /\ mMatches # Null
    /\ mText = <<"a", "a", "a", "a">> /\ mKeywords = << <<"a", "a">> >>

\* the completed items of the item list
CompletedItems == SelectSeq(analyses, IsCompleted)

\* C16: averageResponseLength is the rounded mean length of the completed
\* responses (their summed length divided by the number of completed items) and
\* 0 when no item is completed; other items do not enter the divisor.
C16_MeanOfCompleted ==
    averageResponseLength =
        IF Len(CompletedItems) = 0 THEN 0
        ELSE MathRound(SumLengths(CompletedItems), Len(CompletedItems))

\* C17: with an empty item list totalPrompts, totalResponses,
\* totalKeywordMatches and averageResponseLength are 0 and keywordFrequency is
\* the empty object.
C17_EmptyListAnalytics ==
    analyses = << >> =>
        /\ analytics.totalPrompts = 0
        /\ analytics.totalResponses = 0
        /\ analytics.totalKeywordMatches = 0
        /\ analytics.averageResponseLength = 0
        /\ DOMAIN analytics.keywordFrequency = {}

\* the item list is empty again after a run, with keywords still configured
C17_Witness == analyses = << >> /\ issued # {} /\ Len(keywords) > 0

\* the keywords that have a match record in some item
MatchedKeywords ==
    UNION {{analyses[i].keywordMatches[j].keyword :
                j \in 1..Len(analyses[i].keywordMatches)} : i \in 1..Len(analyses)}

\* the sum of the match counts of keyword k over the first n items
RECURSIVE CountOfKeyword(_, _)
CountOfKeyword(k, n) ==
    IF n = 0 THEN 0
    ELSE CountOfKeyword(k, n - 1)
         + SumCounts(SelectSeq(analyses[n].keywordMatches, LAMBDA m : m.keyword = k))

\* the sum of the values of a frequency object
RECURSIVE SumOfValues(_, _)
SumOfValues(freq, keys) ==
    IF keys = {} THEN 0
    ELSE LET k == CHOOSE x \in keys : TRUE
         IN freq[k].n + SumOfValues(freq, keys \ {k})

\* the analytics data d says of the item list what C18 states, for the keywords
\* in the set ks
SumsCounts(d, ks) ==
    /\ DOMAIN d.keywordFrequency = MatchedKeywords
    /\ \A k \in MatchedKeywords \cap ks :
          d.keywordFrequency[k] = Num(CountOfKeyword(k, Len(analyses)))
    /\ d.totalPrompts = Len(analyses)
    /\ d.totalResponses = Cardinality({i \in 1..Len(analyses) : IsCompleted(analyses[i])})
    /\ d.totalResponses <= d.totalPrompts

\* C18: keywordFrequency maps each keyword to the sum of its match counts over
\* all items, totalKeywordMatches is the sum of the values of keywordFrequency,
\* totalPrompts is the number of items and totalResponses the number of
\* completed items, so totalResponses <= totalPrompts.
C18_FrequencySumsCounts ==
    summary # Null =>
        /\ SumsCounts(summary[1].data, MatchedKeywords)
        /\ \A k \in MatchedKeywords : summary[1].data.keywordFrequency[k].type = "number"
        /\ summary[1].data.totalKeywordMatches =
               SumOfValues(summary[1].data.keywordFrequency, MatchedKeywords)

\* C18 holds of the keywords that are not property names of Object.prototype
C18_ExceptInheritedKeys ==
    summary # Null =>
        /\ SumsCounts(summary[1].data, MatchedKeywords \ ObjectPrototypeKeys)
        /\ (MatchedKeywords \cap ObjectPrototypeKeys = {}) =>
               summary[1].data.totalKeywordMatches =
                   SumOfValues(summary[1].data.keywordFrequency, MatchedKeywords)

\* the session, if any, is finished
SessionFinished ==
    currentSession # Null =>
        /\ currentSession[1].status = "completed"
        /\ currentSession[1].endTime # Null /\ currentSession[1].endTime[1] # 0

TooManyRowsError == Some("Maximum 50 rows allowed per batch")

\* no item, of the item list or of a batch run, is made from row
NoItemOf(row) ==
    /\ \A k \in 1..Len(analyses) : analyses[k].prompt # row.prompt
    /\ \A k \in 1..Len(batch.results) : batch.results[k].prompt # row.prompt
    /\ \A k \in 1..Len(batch.rows) : batch.rows[k] # row
    /\ batchSession # Null =>
           \A k \in 1..Len(batchSession[1].rows) : batchSession[1].rows[k] # row

\* C20: a table of more than 50 rows is rejected at upload: the error is shown
\* and batchData is left empty, so that no batch run can start on it, no
\* provider call is made and no item exists for any of its rows.
C20_RowLimitRejects ==
    /\ [](/\ Len(batchData) <= BatchRowLimit
          /\ NoItemOf(RowOver)
          /\ error = TooManyRowsError =>
                 (batchData = << >> /\ batch.pc = "idle" /\ ~isProcessing))
    /\ [][(error' = TooManyRowsError /\ error # TooManyRowsError) =>
             /\ batchData' = << >>
             /\ UNCHANGED <<analyses, inflight, batch, batchSession, isProcessing>>]_vars
    /\ [][(error = TooManyRowsError /\ inflight' # inflight) =>
             \A c \in inflight' \ inflight : c.kind = "manual"]_vars

\* the table of 51 rows has been rejected while items of a run exist
C20_Witness == error = TooManyRowsError /\ batchData = << >> /\ Len(analyses) > 0

\* ---------------------------------------------------------------------------
\* C23: the prompt list never holds more than 10 prompts and each of them is a
\* non-empty trimmed text; an addPrompt with a blank text, or while the list
\* holds 10 prompts, leaves the list unchanged; so no run is started over more
\* than 10 prompts and no call is issued for an index beyond the tenth.
WellFormedPrompts(ps) ==
    /\ Len(ps) <= PromptLimit
    /\ \A k \in 1..Len(ps) : ps[k] # << >> /\ Trim(ps[k]) = ps[k]

\* the step appended one prompt to the list
AppendedPrompt == Len(prompts') = Len(prompts) + 1

C23_PromptLimit ==
    [][/\ WellFormedPrompts(prompts')
       /\ (Len(prompts) = PromptLimit => ~AppendedPrompt)
       /\ (AppendedPrompt => prompts'[Len(prompts')] \in {Trim(t) : t \in PromptSet})
       /\ \A r \in 1..MaxSlots : Len(runs'[r].prompts) <= PromptLimit
       /\ \A c \in inflight' : c.index < PromptLimit]_vars

\* a run was started over a full list, and the list is still full after
\* further attempts to add
C23_Witness ==
    /\ Len(prompts) = PromptLimit
    /\ events >= 3
    /\ \E r \in 1..MaxSlots : Len(runs[r].prompts) = PromptLimit

\* ---------------------------------------------------------------------------
\* C22: every row parseCSV returns has a non-empty trimmed prompt and a
\* non-empty list of non-empty trimmed keywords, and the rows are in file order:
\* the rows of a table of two data lines are the rows of its first line followed
\* by the rows of its second line.
ParsedRows == csvResult[1].rows

WellFormedText(t) == t # << >> /\ Trim(t) = t

PromptsWellFormed == \A k \in 1..Len(ParsedRows) : WellFormedText(ParsedRows[k].prompt)

KeywordsWellFormed ==
    \A k \in 1..Len(ParsedRows) :
        \A j \in 1..Len(ParsedRows[k].keywords) :
            WellFormedText(ParsedRows[k].keywords[j])

KeywordListsNonEmpty == \A k \in 1..Len(ParsedRows) : ParsedRows[k].keywords # << >>

\* the rows of a table are those of its data lines taken one at a time, in order
RowsInFileOrder ==
    LET lines == Split(csvFile, "\n")
    IN Len(lines) = 3 =>
           ParsedRows = parseCSV(JoinLines(<<lines[1], lines[2]>>)).rows
                            \o parseCSV(JoinLines(<<lines[1], lines[3]>>)).rows

C22_ParsedRowsValid ==
    csvResult # Null =>
        /\ PromptsWellFormed
        /\ KeywordsWellFormed
        /\ KeywordListsNonEmpty
        /\ RowsInFileOrder

\* what holds of every parsed row: all of the above except that the keyword
\* list of a row may be empty
C22_ExceptEmptyKeywordLists ==
    csvResult # Null =>
        /\ PromptsWellFormed
        /\ KeywordsWellFormed
        /\ RowsInFileOrder

\* a table of two valid rows with different prompts has been parsed
C22_TwoRowsParsed ==
    /\ csvResult # Null
    /\ Len(ParsedRows) = 2
    /\ ParsedRows[1].prompt # ParsedRows[2].prompt

\* ---------------------------------------------------------------------------
\* C21: uploading a malformed table -- one whose header lacks the prompt or the
\* keywords column, or one with no valid data row -- sets the error message and
\* empties the loaded rows, whatever was loaded before; it creates no batch
\* session and issues no provider call, and with no rows loaded no batch run
\* can be started.
MissingColumnsError == Some("CSV must contain \"prompt\" and \"keywords\" columns")
NoValidRowsError == Some("No valid rows found in CSV file")

\* the message a malformed table of the model is rejected with
RejectionOf(csvText) ==
    IF csvText = NoKeywordsColumnFile THEN MissingColumnsError ELSE NoValidRowsError

C21_MalformedTableRejected ==
    [][/\ \A csvText \in {NoRowsFile, NoKeywordsColumnFile} :
              handleFileUpload(csvText) =>
                  /\ error' = RejectionOf(csvText)
                  /\ batchData' = << >>
                  /\ batchSession' = batchSession
                  /\ batch' = batch
                  /\ inflight' = inflight
                  /\ analyses' = analyses
       /\ (batchData = << >> /\ batch.pc = "idle" =>
              batch'.pc = "idle" /\ batchSession' \in {batchSession, Null})]_vars

\* a table without the keywords column was rejected after a table had been
\* loaded and processed: the rows loaded earlier are gone
C21_Witness ==
    /\ error = MissingColumnsError
    /\ batchData = << >>
    /\ batchSession # Null
    /\ batchSession[1].totalRows > 0

\* ---------------------------------------------------------------------------
\* C24: the session installed when a batch run completes has an empty keywords
\* snapshot and the prompts of the batch rows in row order, and each completed
\* item of the batch carries the matches of its response against the keywords
\* of its own row; a batch session keeps these prompts and keywords afterwards.
BatchCompletes == batch.pc = "call" /\ batch'.pc = "idle"

IsBatchSession(session) == session # Null /\ session[1].id.kind = "batch-session"

C24_BatchSessionSnapshot ==
    [][/\ BatchCompletes =>
              /\ IsBatchSession(currentSession')
              /\ currentSession'[1].keywords = << >>
              /\ currentSession'[1].prompts =
                     [k \in 1..Len(batch.rows) |-> batch.rows[k].prompt]
              /\ Len(currentSession'[1].results) = Len(batch.rows)
              /\ \A k \in 1..Len(batch.rows) :
                     LET item == currentSession'[1].results[k] IN
                     item.status = "completed" =>
                         item.keywordMatches =
                             findKeywordMatches(item.response, batch.rows[k].keywords)
       /\ (IsBatchSession(currentSession) /\ IsBatchSession(currentSession') /\ ~BatchCompletes =>
              /\ currentSession'[1].keywords = currentSession[1].keywords
              /\ currentSession'[1].prompts = currentSession[1].prompts)]_vars

\* a batch of two rows with different keyword lists has completed while
\* keywords were configured for manual runs, and its two items hold different matches
C24_Witness ==
    /\ IsBatchSession(currentSession)
    /\ keywords # << >>
    /\ Len(currentSession[1].prompts) = 2
    /\ currentSession[1].results[1].status = "completed"
    /\ currentSession[1].results[2].status = "completed"
    /\ currentSession[1].results[1].keywordMatches # << >>
    /\ currentSession[1].results[1].keywordMatches
           # currentSession[1].results[2].keywordMatches

\* ---------------------------------------------------------------------------
\* C25: whenever a session exists the item list is index-aligned with the
\* session's prompts: one item per prompt, item k carrying prompt k.
AlignedWith(session) ==
    /\ Len(analyses) = Len(session.prompts)
    /\ \A k \in 1..Len(analyses) : analyses[k].prompt = session.prompts[k]

C25_ItemsAlignedWithSession ==
    currentSession # Null => AlignedWith(currentSession[1])

\* the alignment holds for the session of a manual run
C25_ManualSessionAligned ==
    currentSession # Null /\ ~IsBatchSession(currentSession) =>
        AlignedWith(currentSession[1])

\* ---------------------------------------------------------------------------
\* C29: a run over n prompts or rows waits exactly n - 1 times: when the call
\* of an item other than the last settles, a delay follows whether the item
\* completed or failed; when the call of the last item settles no delay follows
\* and the run completes in that same step.
ManualSettles(r) == runs[r].pc = "call" /\ runs'[r].pc # "call"

BatchSettles == batch.pc = "call" /\ batch'.pc # "call"

C29_DelaysBetweenItems ==
    [][/\ \A r \in 1..MaxSlots :
              ManualSettles(r) /\ ~runs[r].abandoned =>
                  IF runs[r].i < Len(runs[r].prompts) - 1
                  THEN /\ runs'[r].pc = "delay"
                       /\ runs'[r].delays = runs[r].delays + 1
                       /\ isRunning' = isRunning
                  ELSE /\ runs'[r].pc = "done"
                       /\ runs'[r].delays = Len(runs[r].prompts) - 1
                       /\ isRunning' = FALSE
                       /\ currentSession' # Null
                       /\ currentSession'[1].status = "completed"
       /\ BatchSettles =>
              IF batch.i < Len(batch.rows) - 1
              THEN /\ batch'.pc = "delay"
                   /\ batch'.delays = batch.delays + 1
                   /\ isProcessing' = TRUE
              ELSE /\ batch'.pc = "idle"
                   /\ batch.delays = Len(batch.rows) - 1
                   /\ isProcessing' = FALSE
                   /\ batchSession' # Null
                   /\ batchSession'[1].status = "completed"]_vars

\* a manual run of two prompts has ended after one delay, which followed a
\* failed item
C29_Witness ==
    \E r \in 1..MaxSlots :
        /\ runs[r].pc = "done"
        /\ Len(runs[r].prompts) = 2
        /\ runs[r].delays = 1
        /\ runs[r].results[1].status = "error"

\* ---------------------------------------------------------------------------
\* C30: a run over n prompts issues exactly n provider calls, one per prompt in
\* index order: at every moment the calls issued so far are those of the
\* indices 0..i, each once, the only call outstanding is that of index i, each
\* result carries the prompt of its index, and a run ends with n calls issued.
CallsInOrder(f, n) ==
    /\ f.calls = [k \in 1..(f.i + 1) |-> k - 1]
    /\ f.i < n
    /\ Len(f.results) <= Len(f.calls)

LastOf(xs) == xs[Len(xs)]

SuccessRecorded(f, items) ==
    LET outcome == LastOf(f.outcomes)
        item == LastOf(f.results)
    IN outcome.ok =>
           /\ item.status = "completed"
           /\ item.response = outcome.text
           /\ item.keywordMatches = findKeywordMatches(outcome.text, f.keywords)
           /\ item.error = Null
           /\ \E k \in 1..Len(items) : items[k] = item

C28_SuccessCompletesItem ==
    [][\A r \in 1..MaxSlots :
          ManualSettles(r) => SuccessRecorded(runs'[r], analyses')]_vars

\* the same for every keyword list without an invalid pattern
C28_ExceptInvalidPatterns ==
    [][\A r \in 1..MaxSlots :
          ManualSettles(r) /\ ~findKeywordMatchesThrows(runs[r].keywords) =>
              SuccessRecorded(runs'[r], analyses')]_vars

\* ---------------------------------------------------------------------------
\* C27: when every provider call settles and every delay elapses, a manual run
\* that has been started eventually ends with the session completed and
\* isRunning false, and a batch run eventually ends with isProcessing false,
\* also when every item fails: isRunning and isProcessing are false again and
\* again, and isRunning falls only together with the completion of the session.
\* Nothing but the provider ends the wait for a call: while a call is
\* outstanding its run stays running.
ManualRunOver ==
    /\ ~isRunning
    /\ currentSession # Null
    /\ currentSession[1].status = "completed"

NoTimeout ==
    /\ \A c \in inflight \cap inflight' :
           IF c.kind = "manual"
           THEN isRunning' /\ runs'[c.run].pc = "call"
           ELSE isProcessing' /\ batch'.pc = "call"

\* isRunning falls only in the step that completes the session
EndsCompleted == isRunning /\ ~isRunning' => ManualRunOver'

C27_RunsTerminate ==
    /\ []<>(~isRunning)
    /\ []<>(~isProcessing)
    /\ [][EndsCompleted /\ NoTimeout]_vars

\* a manual run and a batch run have both ended although every provider call
\* failed
C27_Witness ==
    /\ ManualRunOver
    /\ ~isProcessing
    /\ \E r \in 1..MaxSlots :
           /\ runs[r].pc = "done"
           /\ \A k \in 1..Len(runs[r].results) : runs[r].results[k].status = "error"
    /\ batchSession # Null
    /\ batchSession[1].status = "completed"
    /\ \A k \in 1..Len(batchSession[1].results) :
           batchSession[1].results[k].status = "error"

\* ---------------------------------------------------------------------------
\* C26: when the orchestration of a run faults the session of the run ends with
\* status error: the session of App for a manual run, the batch session of
\* BatchAnalysis for a batch run.
ManualFaults(r) == runs[r].pc = "call" /\ runs'[r].pc = "rejected"

BatchFaults == batch.pc = "call" /\ batch'.pc = "idle" /\ error' # Null

BatchFaultEndsInError ==
    BatchFaults =>
        /\ batchSession' # Null
        /\ batchSession'[1].status = "error"
        /\ ~isProcessing'

C26_FaultEndsInError ==
    [][/\ \A r \in 1..MaxSlots :
              ManualFaults(r) =>
                  /\ currentSession' # Null
                  /\ currentSession'[1].status = "error"
       /\ BatchFaultEndsInError]_vars

\* the batch half of the claim
C26_BatchFaultEndsInError == [][BatchFaultEndsInError]_vars

\* ---------------------------------------------------------------------------
\* C31: a batch run follows the item lifecycle of a manual run: while it runs
\* the item list holds one item per row, in row order; the item of the row
\* whose provider call is outstanding is processing, the items of the rows
\* before it are terminal and the items of the rows after it are pending.
BatchItemsOf(items) == SelectSeq(items, IsBatchItem)

\* the items the rows of the running batch must have in the list
RowItemsInLifecycle(items) ==
    /\ Len(items) >= Len(batch.rows)
    /\ \A k \in 1..Len(batch.rows) :
           LET item == items[Len(items) - Len(batch.rows) + k] IN
           /\ item.prompt = batch.rows[k].prompt
           /\ IF k - 1 < batch.i THEN Terminal(item)
              ELSE IF k - 1 = batch.i
              THEN item.status = IF batch.pc = "call" THEN "processing"
                                 ELSE "completed" \/ item.status = "error"
              ELSE item.status = "pending"

C31_BatchItemLifecycle ==
    batch.pc # "idle" => RowItemsInLifecycle(BatchItemsOf(analyses))

\* what the batch run does instead: its items enter the list only when the run
\* completes, all at once, terminal and in row order
C31_BatchItemsAppendedAtEnd ==
    [][IF BatchCompletes
       THEN /\ Len(analyses') = Len(analyses) + Len(batch.rows)
            /\ \A k \in 1..Len(batch.rows) :
                   LET item == analyses'[Len(analyses) + k] IN
                   /\ IsBatchItem(item)
                   /\ Terminal(item)
                   /\ item.prompt = batch.rows[k].prompt
                   /\ item.id.index = k - 1
       ELSE batch' # batch => analyses' = analyses]_vars

\* ---------------------------------------------------------------------------
\* C32: a running manual run works on the snapshot taken at its start.  A step
\* that changes the configured prompts or keywords changes neither the items,
\* nor the session, nor the calls outstanding; the prompts and keywords of a
\* session do not change after its start; and the item a settling call yields
\* carries the prompt of its index in the session and the matches of its
\* response against the session's keywords.
ConfigurationEdited == prompts' # prompts \/ keywords' # keywords

SessionSnapshotKept ==
    currentSession # Null /\ currentSession' # Null /\ starts' = starts
        /\ ~IsBatchSession(currentSession) /\ ~IsBatchSession(currentSession') =>
            /\ currentSession'[1].prompts = currentSession[1].prompts
            /\ currentSession'[1].keywords = currentSession[1].keywords

SettledFromSnapshot(r) ==
    LET item == LastOf(runs'[r].results)
        session == currentSession[1]
    IN ManualSettles(r) /\ currentSession # Null /\ ~IsBatchSession(currentSession) =>
           /\ Len(analyses') = Len(session.prompts)
           /\ item.prompt = session.prompts[runs[r].i + 1]
           /\ item.status = "completed" =>
                  item.keywordMatches = findKeywordMatches(item.response, session.keywords)

C32_RunUsesSnapshot ==
    [][/\ ConfigurationEdited =>
              UNCHANGED <<analyses, currentSession, inflight, runs, isRunning>>
       /\ SessionSnapshotKept
       /\ \A r \in 1..MaxSlots : SettledFromSnapshot(r)]_vars

\* a run has ended whose item was matched against the keywords of its start
\* although the keyword list was changed while the call was outstanding
C32_Witness ==
    /\ currentSession # Null
    /\ ~IsBatchSession(currentSession)
    /\ currentSession[1].status = "completed"
    /\ currentSession[1].keywords # keywords
    /\ currentSession[1].results[1].status = "completed"
    /\ currentSession[1].results[1].keywordMatches # << >>
    /\ currentSession[1].results[1].keywordMatches
           # findKeywordMatches(currentSession[1].results[1].response, keywords)

\* ---------------------------------------------------------------------------
\* C33: the keyword list never holds a duplicate, and every keyword in it is
\* trimmed, lower-case and non-empty; an addKeyword whose text equals a keyword
\* of the list up to case and surrounding blanks leaves the list unchanged; a
\* removal takes out exactly the keyword removed and keeps the others in order.
LowerCaseLetters == {"a", "b", "c", "i", "t"}

NormalKeyword(k) ==
    /\ k # << >>
    /\ Trim(k) = k
    /\ \A j \in 1..Len(k) : k[j] \in LowerCaseLetters

NormalKeywordList(kws) ==
    /\ \A k \in 1..Len(kws) : NormalKeyword(kws[k])
    /\ \A j, k \in 1..Len(kws) : j # k => kws[j] # kws[k]

\* the list with the element at position k taken out
Without(kws, k) == SubSeq(kws, 1, k - 1) \o SubSeq(kws, k + 1, Len(kws))

C33_KeywordListNormal ==
    [][/\ NormalKeywordList(keywords')
       /\ \/ keywords' = keywords
          \/ /\ Len(keywords') = Len(keywords) + 1
             /\ SubSeq(keywords', 1, Len(keywords)) = keywords
          \/ \E k \in 1..Len(keywords) : keywords' = Without(keywords, k)
       /\ \A t \in TypedKeywords :
              addKeyword(t) /\ (\E k \in 1..Len(keywords) :
                                   NormalKeywordList(<<keywords[k]>>)
                                   /\ Len(Trim(t)) = Len(keywords[k])
                                   /\ \A j \in 1..Len(keywords[k]) :
                                          Lower(Trim(t)[j]) = keywords[k][j])
                  => keywords' = keywords]_vars

\* three keywords are listed after five panel events: besides the three
\* additions, an addition was refused or a keyword was removed and typed again
C33_Witness ==
    /\ Len(keywords) = 3
    /\ events = MaxEvents

\* ---------------------------------------------------------------------------
\* C34: the items of analyses have pairwise distinct ids in every reachable
\* state, and the id of an item never changes, within a manual run, within a
\* batch run and after the results of several batch runs were appended.
DistinctIds(items) ==
    \A j, k \in 1..Len(items) : j # k => items[j].id # items[k].id

C34_ItemIdsDistinct == DistinctIds(analyses)

\* Weaker statement the code meets: the placeholders of one manual run and the
\* results of one batch run are distinct among themselves, and unless a start
\* replaces the list every item already in it keeps its position and its id.
C34_IdsStableInPlace ==
    /\ [](/\ \A r \in 1..Len(runs) : \A j, k \in 1..Len(runs[r].ids) :
                 j # k => runs[r].ids[j] # runs[r].ids[k]
          /\ DistinctIds(batch.results))
    /\ [][(starts' = starts /\ Len(analyses') >= Len(analyses)) =>
              \A k \in 1..Len(analyses) : analyses'[k].id = analyses[k].id]_vars

\* ---------------------------------------------------------------------------
\* C35: at most one manual scheduling loop is in flight at any time; isRunning
\* is true from the start of a manual run until its completion step; and while
\* isRunning is true neither a start nor a reset happens through the controls.
LoopsInFlight == {r \in 1..Len(runs) : runs[r].pc \in {"call", "delay"}}

C35_OneManualLoop ==
    /\ [](/\ Cardinality(LoopsInFlight) <= 1
          /\ isRunning <=> LoopsInFlight # {})
    /\ [][/\ isRunning => starts' = starts
          /\ (~isRunning /\ isRunning') => starts' # starts
          /\ (isRunning /\ ~isRunning') =>
                 /\ \E r \in LoopsInFlight : RunEnds(r)
                 /\ currentSession' # Null
                 /\ Len(analyses') = Len(analyses)]_vars

\* a run waits between two prompts while both lists are non-empty and there is
\* room for another event: only isRunning keeps Start disabled
C35_Witness ==
    /\ isRunning
    /\ \E r \in LoopsInFlight : runs[r].pc = "delay"
    /\ Len(prompts) > 0
    /\ Len(keywords) > 0
    /\ events < MaxEvents

\* ---------------------------------------------------------------------------
\* C36: resetAnalysis empties the item list, sets currentSession to null and
\* isRunning to false, and leaves the configured prompts and keywords as they
\* were; right after it every analytics figure is zero, processingTime included.
AnalyticsAllZero(a) ==
    /\ a.totalPrompts = 0
    /\ a.totalResponses = 0
    /\ a.totalKeywordMatches = 0
    /\ a.averageResponseLength = 0
    /\ DOMAIN a.keywordFrequency = {}
    /\ a.processingTime = 0

C36_ResetClearsRun ==
    [][resetAnalysis =>
          /\ analyses' = << >>
          /\ currentSession' = Null
          /\ ~isRunning'
          /\ prompts' = prompts
          /\ keywords' = keywords
          /\ AnalyticsAllZero(analytics')]_vars

\* a reset hit a run whose provider call was outstanding: the list and the
\* session are gone while the abandoned call is still in flight
C36_Witness ==
    /\ starts > 0
    /\ analyses = << >>
    /\ currentSession = Null
    /\ ~isRunning
    /\ \E r \in 1..Len(runs) : runs[r].abandoned /\ runs[r].pc = "call"
    /\ Len(prompts) > 0
    /\ AnalyticsAllZero(analytics)

\* ---------------------------------------------------------------------------
\* C37: in every reachable state at most one item of a manual run is in status
\* processing, and the four progress counters partition the item list:
\* completed + processing + errors + pending is the number of items.
C37_ProgressCountersPartition ==
    /\ processing <= 1
    /\ completed + processing + errors + pending = Len(analyses)

\* the second prompt of a run is being processed after the first one settled,
\* and a third is still waiting: three counters are non-zero at once
C37_Witness ==
    /\ isRunning
    /\ processing = 1
    /\ pending >= 1
    /\ completed + errors >= 1

\* ---------------------------------------------------------------------------
\* C38: in the App variant of part_003 the result processPrompt returns for
\* prompt i carries the id of the i-th placeholder, so once the run has ended
\* every item of analyses is completed or error and none is left pending,
\* whatever the clock did between creating the placeholders and each call.
RunOver003(r) == runs[r].pc = "done" /\ ~isRunning

C38_NoPlaceholderLeftPending ==
    \A r \in 1..Len(runs) :
        RunOver003(r) =>
            /\ Len(analyses) = Len(runs[r].results)
            /\ \A k \in 1..Len(analyses) :
                   /\ runs[r].results[k].id = analyses[k].id
                   /\ analyses[k].status \in {"completed", "error"}

\* Weaker statement the variant meets: the first item is always settled, and
\* an item is left pending exactly when the clock had moved on from the value
\* its placeholder was created with by the time its prompt was processed.
C38_PendingOnlyAfterClockMoved ==
    \A r \in 1..Len(runs) :
        RunOver003(r) =>
            /\ Len(analyses) = Len(runs[r].results)
            /\ analyses[1].status \in {"completed", "error"}
            /\ \A k \in 1..Len(analyses) :
                   IF runs[r].results[k].id.t = analyses[k].id.t
                   THEN analyses[k] = runs[r].results[k]
                   ELSE analyses[k].status = "pending"

\* ---------------------------------------------------------------------------
\* C39: findKeywordMatches is total and pure: for every text and every list of
\* non-empty keywords the call terminates and returns a result, and it changes
\* no state; this includes keywords that, as patterns, match the empty string.
\* The statement is taken for the keyword lists whose patterns all compile, as
\* a pattern that does not compile ends the call with a SyntaxError at once.
AppStateUntouched ==
    UNCHANGED <<clock, prompts, keywords, analyses, isRunning, currentSession,
                runs, batchData, batchSession, isProcessing, error, batch,
                inflight, mText, mKeywords>>

AllCompile == \A k \in 1..Len(mKeywords) : ~RegExpThrows(mKeywords[k])

C39_MatcherTotal ==
    /\ AllCompile => <>(exec.pc = "returned" /\ mMatches # Null)
    /\ [][AppStateUntouched]_vars

\* Weaker statement the code meets: the call changes no state, and when every
\* keyword compiles and none can match the empty string it terminates and
\* returns the records of the matcher.
PlainPatterns ==
    AllCompile /\ \A k \in 1..Len(mKeywords) : ~MatchesEmptyString(mKeywords[k])

C39_TotalOnPlainPatterns ==
    /\ PlainPatterns =>
           <>(exec.pc = "returned"
              /\ mMatches = Some(findKeywordMatches(mText, mKeywords)))
    /\ [][AppStateUntouched]_vars

====
